---- MODULE Spec2Model ----
(***************************************************************************)
(* The form / submission lifecycle of src/app/src/forms/form/service.js.   *)
(*                                                                         *)
(* Every service call is an async function: it runs up to its next await,  *)
(* and other calls may run in between.  A call is a process p whose pc     *)
(* names the awaited statement it is about to run; one action of the model *)
(* is one awaited statement together with the synchronous code up to the   *)
(* next await.                                                             *)
(*                                                                         *)
(* The state store is a relational database used at its default isolation  *)
(* (READ COMMITTED): a query built with `Model.query(trx)` belongs to the  *)
(* transaction trx, its writes are visible to trx alone until trx.commit() *)
(* and are discarded by trx.rollback(); a query built with `Model.query()` *)
(* runs outside every transaction and is committed at once.                *)
(***************************************************************************)
EXTENDS Integers, FiniteSets, Sequences, TLC

\* ------------------------------------------------------------------ bounds
\* Number of service calls made in one behaviour.
MaxOps == 2
\* Number of injected statement failures (a rejected database call).
MaxFailures == 1
Procs == 1..MaxOps

\* An id that names no row (an "arbitrary" id passed by a caller).
NoId == 0

\* The current user of every call: an authenticated user {id, usernameIdp}.
CurrentUser == "user1"

Max(S) == CHOOSE x \in S : \A y \in S : y <= x

\* ------------------------------------------------------------- uuid texts
\* Number of characters of a uuid the model keeps (it has 36).
UuidLen == 10

\* `submissionId.substring(0, 8)`
ConfirmationLen == 8

HexDigits == <<"0", "1", "2", "3", "4", "5", "6", "7", "8", "9", "a", "b", "c", "d", "e", "f">>

\* uuid.v4(): the text of the n-th id it returns, in lower-case hex digits.  Rows
\* hold the number n for the id and this text is what string operations see.
UuidText(n) == [i \in 1..UuidLen |-> HexDigits[((n * (i + 6)) % 16) + 1]]

\* String.prototype.toUpperCase on one character.
toUpperCase(c) ==
  CASE c = "a" -> "A" [] c = "b" -> "B" [] c = "c" -> "C"
    [] c = "d" -> "D" [] c = "e" -> "E" [] c = "f" -> "F" [] OTHER -> c

\* `submissionId.substring(0, 8).toUpperCase()`
ConfirmationId(n) == [i \in 1..ConfirmationLen |-> toUpperCase(UuidText(n)[i])]

\* An id and a confirmationId chosen by a client and carried in a payload.
ClientUuid == 99

ClientConfirmationId == <<"D", "E", "A", "D", "B", "E", "E", "F">>

\* --------------------------------------------------------------- the state
VARIABLES
  forms,        \* Form rows: formId -> [active, public, enableSubmitterDraft,
                \*   allowSubmitterToUploadFile, schedule, reminder_enabled]
  formIdps,     \* FormIdentityProvider rows: [formId, code]
  formRoles,    \* FormRoleUser rows: [formId, userId, role]
  formStatusCodes, \* FormStatusCode rows: [formId, code]
  versions,     \* FormVersion rows: [id, formId, version, published, schema, fromDraft]
  drafts,       \* FormVersionDraft rows: [id, formId, schema]
  submissions,  \* FormSubmission rows: [id, formVersionId, confirmationId, draft,
                \*   createdBy, data]
  subUsers,     \* FormSubmissionUser rows: [formSubmissionId, userId, permission]
  subStatuses,  \* FormSubmissionStatus rows: [submissionId, code]
  files,        \* FileStorage rows: fileId -> formSubmissionId (NoId: not linked)
  apiKeys,      \* FormApiKey rows: [id, formId, secret, filesApiAccess]
  proc,         \* the calls: p -> its pc, arguments, locals and transaction
  events,       \* calls made to eventService / eventStreamService
  failures,     \* number of statement failures injected so far
  nextUuid      \* uuid.v4(): the next id it returns (ids are never reused)

vars == <<forms, formIdps, formRoles, formStatusCodes, versions, drafts, submissions,
          subUsers, subStatuses, files, apiKeys, proc, events, failures, nextUuid>>

\* The tables that hold the rows owned by a form besides its versions and drafts.
formRows == <<formIdps, formRoles, formStatusCodes>>

store == <<forms, formRows, versions, drafts, submissions, subUsers, subStatuses, files,
           apiKeys>>

FileIds == {1, 2}
Schemas == {1, 2}

\* The write set of a transaction that has not yet committed.
EmptyTrx ==
  [open    |-> FALSE,
   vflag   |-> {},   \* <<versionId, published>>: patched FormVersion.published
   vins    |-> {},   \* inserted FormVersion rows
   dins    |-> {},   \* inserted FormVersionDraft rows
   dschema |-> {},   \* <<draftId, schema>>: patched FormVersionDraft.schema
   fins    |-> {},   \* <<formId, row>>: inserted Form rows
   factive |-> {},   \* <<formId, active>>: patched Form.active
   fupd    |-> {},   \* <<formId, upd>>: Form rows patched with the fields of upd
   iins    |-> {},   \* inserted FormIdentityProvider rows
   idel    |-> {},   \* formIds whose FormIdentityProvider rows were deleted
   rins    |-> {},   \* inserted FormRoleUser rows
   scins   |-> {},   \* inserted FormStatusCode rows
   kins    |-> {},   \* inserted FormApiKey rows
   kupd    |-> {},   \* <<formId, patch>>: FormApiKey rows of formId updated
   sins    |-> {},   \* inserted FormSubmission rows
   suins   |-> {},   \* inserted FormSubmissionUser rows
   ssins   |-> {},   \* inserted FormSubmissionStatus rows
   flink   |-> {}]   \* <<fileId, submissionId>>: patched FileStorage.formSubmissionId

IdleProc ==
  [pc        |-> "idle",
   op        |-> "none",
   formId    |-> NoId,     \* argument: formId
   targetId  |-> NoId,     \* argument: formVersionId / formVersionDraftId
   publish   |-> TRUE,     \* publishVersion: the flag computed from params.unpublish
   draft     |-> FALSE,    \* createSubmission: data.draft
   userPublic |-> FALSE,   \* createSubmission: currentUser.public
   isPublic  |-> FALSE,    \* createForm: data.identityProviders has 'public';
                           \* createSubmission: isPublicForm, from the form read
   schedule  |-> [enabled |-> FALSE], \* createForm: data.schedule (see Schedule)
   schema    |-> 1,        \* createDraft / updateDraft / createForm: data.schema
   subData   |-> [kind |-> "object", val |-> 0, kids |-> <<>>],
                           \* createSubmission: data.submission.data (see Object)
   dataFiles |-> {},       \* createSubmission: fileIds, what _findFileIds returned
   dataId    |-> NoId,     \* createSubmission: data.id (NoId: the payload has none)
   dataConf  |-> <<>>,     \* createSubmission: data.confirmationId (<<>>: none)
   dataBy    |-> "",       \* createSubmission: data.createdBy ("": none)
   enableDraft |-> TRUE,   \* createForm: data.enableSubmitterDraft
   allowUpload |-> TRUE,   \* createForm: data.allowSubmitterToUploadFile is not falsey
   validation |-> [message |-> "", status |-> "none"],
                           \* createForm / updateForm: scheduleData, what
                           \* validateScheduleObject returned
   idps      |-> {},       \* createForm / updateForm: the codes of data.identityProviders
   reminder  |-> FALSE,    \* createForm / updateForm: data.reminder_enabled
   clock     |-> [expire |-> FALSE, allowLateSubmissions |-> FALSE, openInFuture |-> FALSE],
                           \* updateForm: where the time of the call falls with
                           \* respect to the dates of data.schedule (see Clocks)
   active    |-> TRUE,     \* readForm: params.active after defaultActiveOnly
   cred      |-> "none",   \* broker client: the permissions of its user
   tenant    |-> "none",   \* broker client: the tenant that holds the connection
   subject   |-> <<>>,     \* broker client: the subject it publishes / subscribes on
   filesApiAccess |-> "false", \* filesApiKeyAccess: the argument (see FilesApiArgs)
   payload   |-> <<>>,     \* createMultiSubmission: data.submission.data as passed
   records   |-> <<>>,     \* createMultiSubmission: what popFormLevelInfo returned
   result    |-> <<>>,     \* createMultiSubmission: result, the rows inserted
   local     |-> NoId,     \* value read before the transaction (see each operation)
   eligible  |-> FALSE,    \* updateForm: validatedReminderEnabled
   newId     |-> NoId,     \* id generated by uuid.v4() for the row the call creates
   trx       |-> EmptyTrx,
   committed |-> FALSE,    \* trx.commit() has succeeded
   outcome   |-> "none",   \* "ok" (returned) | "NotFound" | "error" (thrown)
   relay     |-> "none",   \* ghost: "rejected" / "pending" when the awaited
                           \* eventStreamService call rejected / has not settled
   overlapped |-> {},      \* ghost: the calls whose transaction was open when
                           \* this call's transaction started
   snapV     |-> {},       \* ghost: FormVersion rows when the call started
   snapD     |-> {},       \* ghost: FormVersionDraft rows when the call started
   snapS     |-> {},       \* ghost: FormSubmission rows when the call started
   snapU     |-> {},       \* ghost: FormSubmissionUser rows when the call started
   snapF     |-> <<>>,     \* ghost: Form rows when the call started
   snapR     |-> <<>>,     \* ghost: formRows when the call started
   snapK     |-> {},       \* ghost: FormApiKey rows when the call started
   snapL     |-> <<>>,     \* ghost: FileStorage.formSubmissionId when the call started
   userType  |-> "",       \* generateIdps: userType ("": undefined)
   idpList   |-> <<>>,     \* generateIdps: idps (<<>>: undefined or empty)
   identityProviders |-> <<>>, \* what generateIdps returned, given to parseIdps
   parsed    |-> [idps |-> <<>>, userType |-> ""], \* what parseIdps returned
   cursor    |-> [pending |-> {}, acked |-> {}, inbox |-> 0, handled |-> {},
                  dropped |-> {}, again |-> {}, crashes |-> 0]]
                 \* a consumer and its durable cursor, see EmptyCursor

\* ------------------------------------------------------- the state store
\* Rows of FormVersion written by the open transaction of q, and hence locked
\* against every other writer until q's transaction ends.
LockedV(q) == {u[1] : u \in proc[q].trx.vflag}

LockedD(q) == {u[1] : u \in proc[q].trx.dschema}

LockedF(q) == {u[1] : u \in proc[q].trx.factive \cup proc[q].trx.fupd}

\* A write of p to the FormVersion rows `ids` waits while another open
\* transaction holds one of them; it is modelled as made once they are released.
BlockedV(p, ids) == \E q \in Procs \ {p} : proc[q].trx.open /\ LockedV(q) \cap ids # {}

BlockedD(p, ids) == \E q \in Procs \ {p} : proc[q].trx.open /\ LockedD(q) \cap ids # {}

BlockedF(p, ids) == \E q \in Procs \ {p} : proc[q].trx.open /\ LockedF(q) \cap ids # {}

\* The calls, other than p, that have a transaction open.
OpenTrx(p) == {q \in Procs \ {p} : proc[q].trx.open}

\* The published flag of FormVersion row v as transaction t sees it.
FlagIn(t, v) ==
  IF \E u \in t.vflag : u[1] = v.id
    THEN (CHOOSE u \in t.vflag : u[1] = v.id)[2]
    ELSE v.published

\* The FormVersion table as transaction t sees it: the committed rows with its
\* own patches, and its own inserts.
ViewV(t) == {[v EXCEPT !.published = FlagIn(t, v)] : v \in versions} \cup t.vins

\* t after `patch({published: flag})` on the FormVersion rows `ids`.
PatchV(t, ids, flag) ==
  [t EXCEPT !.vflag = {u \in t.vflag : u[1] \notin ids}
                        \cup {<<i, flag>> : i \in ids \cap {v.id : v \in versions}},
            !.vins  = {IF v.id \in ids THEN [v EXCEPT !.published = flag] ELSE v : v \in t.vins}]

SchemaIn(t, d) ==
  IF \E u \in t.dschema : u[1] = d.id
    THEN (CHOOSE u \in t.dschema : u[1] = d.id)[2]
    ELSE d.schema

ActiveIn(t, f) ==
  IF \E u \in t.factive : u[1] = f
    THEN (CHOOSE u \in t.factive : u[1] = f)[2]
    ELSE forms[f].active

\* The Form row f as transaction t commits it: the fields of `upd` replace those
\* of the row, the other fields stay.
PatchedForm(t, f) ==
  LET row == [forms[f] EXCEPT !.active = ActiveIn(t, f),
                              !.public = IF f \in t.idel
                                           THEN \E i \in t.iins : i.formId = f /\ i.code = "public"
                                           ELSE @]
  IN IF \E u \in t.fupd : u[1] = f
       THEN LET upd == (CHOOSE u \in t.fupd : u[1] = f)[2]
            IN [k \in DOMAIN row |-> IF k \in DOMAIN upd THEN upd[k] ELSE row[k]]
       ELSE row

LinkIn(t, f) ==
  IF \E u \in t.flink : u[1] = f
    THEN (CHOOSE u \in t.flink : u[1] = f)[2]
    ELSE files[f]

\* trx.commit(): the write set of t becomes the committed state.
CommitStore(t) ==
  /\ versions' = ViewV(t)
  /\ drafts' = {[d EXCEPT !.schema = SchemaIn(t, d)] : d \in drafts} \cup t.dins
  /\ forms' = [f \in DOMAIN forms \cup {u[1] : u \in t.fins} |->
                 IF f \in DOMAIN forms
                   THEN PatchedForm(t, f)
                   ELSE (CHOOSE u \in t.fins : u[1] = f)[2]]
  /\ formIdps' = {i \in formIdps : i.formId \notin t.idel} \cup t.iins
  /\ formRoles' = formRoles \cup t.rins
  /\ formStatusCodes' = formStatusCodes \cup t.scins
  /\ submissions' = submissions \cup t.sins
  /\ subUsers' = subUsers \cup t.suins
  /\ subStatuses' = subStatuses \cup t.ssins
  /\ files' = [f \in DOMAIN files |-> LinkIn(t, f)]

\* -------------------------------------------------------------- the calls
Event(svc, fn, p, formId, id, flag) ==
  [svc |-> svc, fn |-> fn, by |-> p, formId |-> formId, id |-> id, flag |-> flag]

\* `catch (err) { if (trx) await trx.rollback(); throw err; }`: the write set of
\* a transaction that has not committed is discarded and the call rejects.
Throw(r, kind) ==
  [r EXCEPT !.pc = "done", !.outcome = kind, !.trx = EmptyTrx]

Return(r) == [r EXCEPT !.pc = "done", !.outcome = "ok", !.trx = EmptyTrx]

\* Form.query().findById(formId).modify('filterActive', true).throwIfNotFound()
FormFound(formId) == formId \in DOMAIN forms /\ forms[formId].active

\* form.versions.length ? form.versions[0].version + 1 : 1, the versions being
\* ordered by version, descending.
NextVersionNumber(formId) ==
  LET vs == {v \in versions : v.formId = formId}
  IN IF vs # {} THEN Max({v.version : v \in vs}) + 1 ELSE 1

\* ------------------------------------------------------------ publishVersion
\* src: publishVersion, `const form = await service.readForm(formId)` and
\* `trx = await FormVersion.startTransaction()`.
PVReadForm(p) ==
  /\ proc[p].pc = "pv_readForm"
  /\ proc' = [proc EXCEPT ![p] =
       IF FormFound(proc[p].formId)
         THEN [proc[p] EXCEPT !.pc = "pv_patchAll", !.local = proc[p].formId, !.trx.open = TRUE, !.overlapped = OpenTrx(p)]
         ELSE Throw(proc[p], "NotFound")]
  /\ UNCHANGED <<store, events, failures, nextUuid>>

\* PublishedMatch with the flag of its where clause inverted.
PublishedMatchInverted(t, formId, publish) ==
  {v.id : v \in {w \in ViewV(t) : w.formId = formId /\ w.published # publish}}

\* The rows `.where('formId', form.id).where('published', publish)` selects.
PublishedMatch(t, formId, publish) ==
  {v.id : v \in {w \in ViewV(t) : w.formId = formId /\ w.published = publish}}

\* src: publishVersion, the first patch: {published: false} on the versions of
\* the form whose published flag equals `publish`.
PVPatchAll(p) ==
  LET ids == PublishedMatch(proc[p].trx, proc[p].local, proc[p].publish)
  IN /\ proc[p].pc = "pv_patchAll"
     /\ ~BlockedV(p, ids)
     /\ proc' = [proc EXCEPT ![p].pc = "pv_patchOne",
                              ![p].trx = PatchV(proc[p].trx, ids, FALSE)]
     /\ UNCHANGED <<store, events, failures, nextUuid>>

\* The rows `findById(formVersionId)` selects: no row when the id names none.
VersionById(t, id) == {v.id : v \in {w \in ViewV(t) : w.id = id}}

\* src: publishVersion, the second patch: {published: publish} on the row
\* formVersionId (a patch of no row is not an error).
PVPatchOne(p) ==
  LET ids == VersionById(proc[p].trx, proc[p].targetId)
  IN /\ proc[p].pc = "pv_patchOne"
     /\ ~BlockedV(p, ids)
     /\ proc' = [proc EXCEPT ![p].pc = "pv_commit",
                              ![p].trx = PatchV(proc[p].trx, ids, proc[p].publish)]
     /\ UNCHANGED <<store, events, failures, nextUuid>>

\* src: publishVersion, `await trx.commit()` and the call of
\* eventService.publishFormEvent that follows it.
PVCommit(p) ==
  /\ proc[p].pc = "pv_commit"
  /\ CommitStore(proc[p].trx)
  /\ proc' = [proc EXCEPT ![p].pc = "pv_reread", ![p].committed = TRUE, ![p].trx = EmptyTrx]
  /\ events' = events \cup {Event("eventService", "publishFormEvent", p,
                                    proc[p].formId, proc[p].targetId, proc[p].publish)}
  /\ UNCHANGED <<apiKeys, failures, nextUuid>>

\* src: publishVersion, `result = await service.readPublishedForm(formId)`; when
\* it throws, the catch block rethrows and the code after it is skipped.
PVReread(p) ==
  /\ proc[p].pc = "pv_reread"
  /\ proc' = [proc EXCEPT ![p] =
       IF FormFound(proc[p].formId)
         THEN [proc[p] EXCEPT !.pc = "pv_onPublish"]
         ELSE Throw(proc[p], "NotFound")]
  /\ UNCHANGED <<store, events, failures, nextUuid>>

\* src: publishVersion, `if (result) { await eventStreamService.onPublish(...);
\* return result; }`.
PVOnPublish(p) ==
  /\ proc[p].pc = "pv_onPublish"
  /\ events' = events \cup {Event("eventStreamService", "onPublish", p,
                                    proc[p].formId, proc[p].targetId, proc[p].publish)}
  /\ proc' = [proc EXCEPT ![p] = Return(proc[p])]
  /\ UNCHANGED <<store, failures, nextUuid>>

\* -------------------------------------------------------------- publishDraft
\* src: publishDraft, `const form = await service.readForm(formId)`; the version
\* number is computed from the versions this read returned.
PDReadForm(p) ==
  /\ proc[p].pc = "pd_readForm"
  /\ proc' = [proc EXCEPT ![p] =
       IF FormFound(proc[p].formId)
         THEN [proc[p] EXCEPT !.pc = "pd_readDraft",
                              !.local = NextVersionNumber(proc[p].formId)]
         ELSE Throw(proc[p], "NotFound")]
  /\ UNCHANGED <<store, events, failures, nextUuid>>

\* FormVersionDraft.query().findById(formVersionDraftId).throwIfNotFound()
DraftFound(id) == \E d \in drafts : d.id = id

DraftRow(id) == CHOOSE d \in drafts : d.id = id

\* src: publishDraft, `const draft = await service.readDraft(formVersionDraftId)`,
\* the start of the transaction and the version object built from form and draft.
PDReadDraft(p) ==
  /\ proc[p].pc = "pd_readDraft"
  /\ proc' = [proc EXCEPT ![p] =
       IF DraftFound(proc[p].targetId)
         THEN [proc[p] EXCEPT !.pc = "pd_patchAll", !.trx.open = TRUE, !.overlapped = OpenTrx(p),
                              !.schema = DraftRow(proc[p].targetId).schema,
                              !.newId = nextUuid]
         ELSE Throw(proc[p], "NotFound")]
  /\ nextUuid' = IF DraftFound(proc[p].targetId) THEN nextUuid + 1 ELSE nextUuid
  /\ UNCHANGED <<store, events, failures>>

\* The rows `.where('formId', form.id)` selects.
FormVersionsMatch(t, formId) == {v.id : v \in {w \in ViewV(t) : w.formId = formId}}

\* src: publishDraft, `FormVersion.query(trx).patch({published: false})
\* .where('formId', form.id)`.
PDPatchAll(p) ==
  LET ids == FormVersionsMatch(proc[p].trx, proc[p].formId)
  IN /\ proc[p].pc = "pd_patchAll"
     /\ ~BlockedV(p, ids)
     /\ proc' = [proc EXCEPT ![p].pc = "pd_insert",
                              ![p].trx = PatchV(proc[p].trx, ids, FALSE)]
     /\ UNCHANGED <<store, events, failures, nextUuid>>

\* The version object publishDraft builds: {id: uuid.v4(), formId: form.id,
\* version: ..., schema: draft.schema, published: true}.  fromDraft is a ghost
\* field: the id of the draft whose schema the version holds.
NewVersion(r) ==
  [id |-> r.newId, formId |-> r.formId, version |-> r.local, published |-> TRUE,
   schema |-> r.schema, fromDraft |-> r.targetId]

\* src: publishDraft, `await FormVersion.query(trx).insert(version)`.
PDInsert(p) ==
  /\ proc[p].pc = "pd_insert"
  /\ proc' = [proc EXCEPT ![p].pc = "pd_deleteDraft",
                           ![p].trx.vins = @ \cup {NewVersion(proc[p])}]
  /\ UNCHANGED <<store, events, failures, nextUuid>>

\* src: publishDraft, `await FormVersionDraft.query().deleteById(formVersionDraftId)`:
\* the query is not given trx, so the delete is committed at once; deleting no
\* row is not an error.
PDDeleteDraft(p) ==
  /\ proc[p].pc = "pd_deleteDraft"
  /\ ~BlockedD(p, {proc[p].targetId})
  /\ drafts' = {d \in drafts : d.id # proc[p].targetId}
  /\ proc' = [proc EXCEPT ![p].pc = "pd_commit"]
  /\ UNCHANGED <<forms, formRows, versions, submissions, subUsers, subStatuses, files, apiKeys,
                 events, failures, nextUuid>>

\* src: publishDraft, `await trx.commit()` and the call of
\* eventService.publishFormEvent that follows it.
PDCommit(p) ==
  /\ proc[p].pc = "pd_commit"
  /\ CommitStore(proc[p].trx)
  /\ proc' = [proc EXCEPT ![p].pc = "pd_reread", ![p].committed = TRUE, ![p].trx = EmptyTrx]
  /\ events' = events \cup {Event("eventService", "publishFormEvent", p,
                                    proc[p].formId, proc[p].newId, TRUE)}
  /\ UNCHANGED <<apiKeys, failures, nextUuid>>

\* src: publishDraft, `result = await service.readVersion(version.id)`.
PDReread(p) ==
  /\ proc[p].pc = "pd_reread"
  /\ proc' = [proc EXCEPT ![p] =
       IF \E v \in versions : v.id = proc[p].newId
         THEN [proc[p] EXCEPT !.pc = "pd_onPublish"]
         ELSE Throw(proc[p], "NotFound")]
  /\ UNCHANGED <<store, events, failures, nextUuid>>

\* src: publishDraft, `if (result) { await eventStreamService.onPublish(...);
\* return result; }`.
PDOnPublish(p) ==
  /\ proc[p].pc = "pd_onPublish"
  /\ events' = events \cup {Event("eventStreamService", "onPublish", p,
                                    proc[p].formId, proc[p].newId, TRUE)}
  /\ proc' = [proc EXCEPT ![p] = Return(proc[p])]
  /\ UNCHANGED <<store, failures, nextUuid>>

\* ------------------------------------------------- createDraft / updateDraft
\* src: createDraft, `const form = await service.readForm(formId)` and the start
\* of the transaction; obj.id = uuid.v4().
CDReadForm(p) ==
  /\ proc[p].pc = "cd_readForm"
  /\ proc' = [proc EXCEPT ![p] =
       IF FormFound(proc[p].formId)
         THEN [proc[p] EXCEPT !.pc = "cd_insert", !.trx.open = TRUE, !.overlapped = OpenTrx(p), !.newId = nextUuid]
         ELSE Throw(proc[p], "NotFound")]
  /\ nextUuid' = IF FormFound(proc[p].formId) THEN nextUuid + 1 ELSE nextUuid
  /\ UNCHANGED <<store, events, failures>>

\* The draft createDraft builds: {...data, id, formId: form.id, createdBy}.
NewDraft(r) == [id |-> r.newId, formId |-> r.formId, schema |-> r.schema]

\* src: createDraft, `await FormVersionDraft.query(trx).insert(obj)`: the form's
\* existing drafts are not looked at.
CDInsert(p) ==
  /\ proc[p].pc = "cd_insert"
  /\ proc' = [proc EXCEPT ![p].pc = "cd_commit",
                           ![p].trx.dins = @ \cup {NewDraft(proc[p])}]
  /\ UNCHANGED <<store, events, failures, nextUuid>>

\* src: createDraft, `await trx.commit()`.
CDCommit(p) ==
  /\ proc[p].pc = "cd_commit"
  /\ CommitStore(proc[p].trx)
  /\ proc' = [proc EXCEPT ![p].pc = "cd_reread", ![p].committed = TRUE, ![p].trx = EmptyTrx]
  /\ UNCHANGED <<apiKeys, events, failures, nextUuid>>

\* src: createDraft, `const result = await service.readDraft(obj.id); return result`.
CDReread(p) ==
  /\ proc[p].pc = "cd_reread"
  /\ proc' = [proc EXCEPT ![p] =
       IF DraftFound(proc[p].newId) THEN Return(proc[p]) ELSE Throw(proc[p], "NotFound")]
  /\ UNCHANGED <<store, events, failures, nextUuid>>

\* src: updateDraft, `const obj = await service.readDraft(formVersionDraftId)` and
\* the start of the transaction.
UDReadDraft(p) ==
  /\ proc[p].pc = "ud_readDraft"
  /\ proc' = [proc EXCEPT ![p] =
       IF DraftFound(proc[p].targetId)
         THEN [proc[p] EXCEPT !.pc = "ud_patch", !.trx.open = TRUE, !.overlapped = OpenTrx(p)]
         ELSE Throw(proc[p], "NotFound")]
  /\ UNCHANGED <<store, events, failures, nextUuid>>

\* src: updateDraft, `FormVersionDraft.query(trx).patchAndFetchById(id, {schema,
\* formVersionId, updatedBy})`; a patch of no row is not an error.
UDPatch(p) ==
  LET ids == {proc[p].targetId} \cap {d.id : d \in drafts}
  IN /\ proc[p].pc = "ud_patch"
     /\ ~BlockedD(p, ids)
     /\ proc' = [proc EXCEPT ![p].pc = "ud_commit",
                              ![p].trx.dschema = @ \cup {<<i, proc[p].schema>> : i \in ids}]
     /\ UNCHANGED <<store, events, failures, nextUuid>>

\* src: updateDraft, `await trx.commit()`.
UDCommit(p) ==
  /\ proc[p].pc = "ud_commit"
  /\ CommitStore(proc[p].trx)
  /\ proc' = [proc EXCEPT ![p].pc = "ud_reread", ![p].committed = TRUE, ![p].trx = EmptyTrx]
  /\ UNCHANGED <<apiKeys, events, failures, nextUuid>>

\* src: updateDraft, `return await service.readDraft(obj.id)`.
UDReread(p) ==
  /\ proc[p].pc = "ud_reread"
  /\ proc' = [proc EXCEPT ![p] =
       IF DraftFound(proc[p].targetId) THEN Return(proc[p]) ELSE Throw(proc[p], "NotFound")]
  /\ UNCHANGED <<store, events, failures, nextUuid>>

\* src: deleteDraft, one statement outside every transaction:
\* `FormVersionDraft.query().deleteById(formVersionDraftId).throwIfNotFound()`.
DDDelete(p) ==
  /\ proc[p].pc = "dd_delete"
  /\ ~BlockedD(p, {proc[p].targetId})
  /\ drafts' = {d \in drafts : d.id # proc[p].targetId}
  /\ proc' = [proc EXCEPT ![p] =
       IF DraftFound(proc[p].targetId)
         THEN Return(proc[p])
         ELSE Throw(proc[p], "NotFound")]
  /\ UNCHANGED <<forms, formRows, versions, submissions, subUsers, subStatuses, files, apiKeys,
                 events, failures, nextUuid>>

\* ---------------------------------------------------- schedule validation
\* A date field of a schedule: not there, there and not a date, or a date.
Dates == {"absent", "invalid", "valid"}

\* scheduleService.isDateValid: a date is valid when it is there and is
\* syntactically a date.
isDateValid(date) == date = "valid"

\* schedule.scheduleType: ScheduleType.MANUAL, ScheduleType.CLOSINGDATE, any
\* other value, or not set.
ScheduleTypes == {"manual", "closingdate", "period", "unset"}

\* A schedule object.  enabled, lateEnabled (allowLateSubmissions.enabled),
\* lateTerm (allowLateSubmissions.forNext.term), lateInterval (...forNext
\* .intervalType), closingMessageEnabled and closingMessage say whether the
\* field is truthy.
Schedule(enabled, open, type, close, late, lateTerm, lateInterval, msgEnabled, msg) ==
  [enabled |-> enabled, openSubmissionDateTime |-> open, scheduleType |-> type,
   closeSubmissionDateTime |-> close, lateEnabled |-> late, lateTerm |-> lateTerm,
   lateInterval |-> lateInterval, closingMessageEnabled |-> msgEnabled,
   closingMessage |-> msg]

AllSchedules ==
  {Schedule(e, o, t, c, l, lt, li, me, m) :
     e \in BOOLEAN, o \in Dates, t \in ScheduleTypes, c \in Dates, l \in BOOLEAN,
     lt \in BOOLEAN, li \in BOOLEAN, me \in BOOLEAN, m \in BOOLEAN}

isLateSubmissionConfigValidAlways(schedule) == TRUE

\* src: isLateSubmissionConfigValid.
isLateSubmissionConfigValid(schedule) ==
  IF schedule.lateEnabled
    THEN schedule.lateTerm /\ schedule.lateInterval
    ELSE TRUE

\* src: isClosingMessageValid.
isClosingMessageValid(schedule) ==
  IF schedule.closingMessageEnabled THEN schedule.closingMessage ELSE TRUE

\* src: validateScheduleObject.
validateScheduleObject(schedule) ==
  IF ~schedule.enabled THEN [message |-> "", status |-> "success"]
  ELSE IF ~isDateValid(schedule.openSubmissionDateTime)
    THEN [message |-> "Invalid open submission date.", status |-> "error"]
  ELSE IF schedule.scheduleType = "closingdate"
    THEN IF ~isDateValid(schedule.closeSubmissionDateTime)
           THEN [message |-> "Invalid closed submission date.", status |-> "error"]
         ELSE IF ~isLateSubmissionConfigValid(schedule)
           THEN [message |-> "Invalid late submission data.", status |-> "error"]
         ELSE IF ~isClosingMessageValid(schedule)
           THEN [message |-> "Invalid closing message.", status |-> "error"]
         ELSE [message |-> "", status |-> "success"]
  ELSE IF schedule.scheduleType # "manual"
    THEN [message |-> "Invalid schedule type.", status |-> "error"]
  ELSE [message |-> "", status |-> "success"]

\* {enabled: false}
DisabledSchedule ==
  Schedule(FALSE, "absent", "manual", "absent", FALSE, FALSE, FALSE, FALSE, FALSE)

\* {enabled: true, scheduleType: 'closingdate', openSubmissionDateTime: <valid>}
NoCloseDateSchedule ==
  Schedule(TRUE, "valid", "closingdate", "absent", FALSE, FALSE, FALSE, FALSE, FALSE)

\* ------------------------------------------------------------------ createForm
\* src: createForm, the schedule check made before the transaction starts
\* (a 422 Problem), then `trx = await Form.startTransaction()`; obj.id = uuid.v4().
CFValidate(p) ==
  /\ proc[p].pc = "cf_validate"
  /\ proc' = [proc EXCEPT ![p] =
       IF validateScheduleObject(proc[p].schedule).status # "success"
         THEN [Throw(proc[p], "Validation")
                 EXCEPT !.validation = validateScheduleObject(proc[p].schedule)]
         ELSE [proc[p] EXCEPT !.pc = "cf_insert", !.trx.open = TRUE, !.overlapped = OpenTrx(p),
                              !.formId = nextUuid, !.newId = nextUuid + 1,
                              !.validation = validateScheduleObject(proc[p].schedule)]]
  /\ nextUuid' = IF validateScheduleObject(proc[p].schedule).status # "success"
                   THEN nextUuid ELSE nextUuid + 2
  /\ UNCHANGED <<store, events, failures>>

setAllowSubmitterToUploadFileAsAsked(isPublicForm, allow) == allow

\* src: _setAllowSubmitterToUploadFile, `!isPublicForm && !falsey(formData
\* .allowSubmitterToUploadFile)`.
setAllowSubmitterToUploadFile(isPublicForm, allow) == ~isPublicForm /\ allow

\* The IdentityProvider table (read only here): the codes of its rows, and
\* those of its rows that are active.
KnownIdps == {"idir", "bceid-basic", "public"}

ActiveIdps == {"idir", "public"}

\* The codes a caller may name in data.identityProviders.
IdpCodes == KnownIdps \cup {"github"}

\* src: Rolenames.
Rolenames ==
  {"owner", "team_manager", "form_designer", "submission_reviewer", "form_submitter",
   "submission_approver"}

\* Object.values(Statuses): the defined status codes.
Statuses == {"SUBMITTED", "ASSIGNED", "COMPLETED", "REVISING"}

\* The Form row createForm inserts (obj.active = true); `public` says whether
\* the identity providers linked to it include 'public'.
NewForm(r) ==
  [active |-> TRUE, public |-> r.isPublic,
   enableSubmitterDraft |-> r.enableDraft,
   allowSubmitterToUploadFile |-> setAllowSubmitterToUploadFile(r.isPublic, r.allowUpload),
   schedule |-> r.schedule, reminder_enabled |-> r.reminder]

\* src: createForm, `await Form.query(trx).insert(obj)`; the identity providers
\* are looked up next when data.identityProviders is a non-empty array.
CFInsert(p) ==
  /\ proc[p].pc = "cf_insert"
  /\ proc' = [proc EXCEPT ![p].pc = IF proc[p].idps # {} THEN "cf_idps" ELSE "cf_roles",
                           ![p].trx.fins = @ \cup {<<proc[p].formId, NewForm(proc[p])>>}]
  /\ UNCHANGED <<store, events, failures, nextUuid>>

InvalidIdpsAnyKnown(codes) == codes \ KnownIdps

\* `IdentityProvider.query(trx).where('code', p.code).where('active', true).first()`
\* finds no row: the codes of `codes` that are not valid.
InvalidIdps(codes) == codes \ ActiveIdps

FormIdps(formId, codes) == {[formId |-> formId, code |-> c] : c \in codes}

\* src: createForm, the loop over data.identityProviders: each code is looked
\* up and a code with no active IdentityProvider row is a 422 Problem; then
\* `FormIdentityProvider.query(trx).insert(fips)`.
CFIdps(p) ==
  /\ proc[p].pc = "cf_idps"
  /\ proc' = [proc EXCEPT ![p] =
       IF InvalidIdps(proc[p].idps) # {}
         THEN Throw(proc[p], "InvalidIdp")
         ELSE [proc[p] EXCEPT !.pc = "cf_roles",
                              !.trx.iins = @ \cup FormIdps(proc[p].formId, proc[p].idps)]]
  /\ UNCHANGED <<store, events, failures, nextUuid>>

UserRolesOwnerOnly(formId) ==
  {[formId |-> formId, userId |-> CurrentUser, role |-> "owner"]}

\* src: createForm, `const userRoles = Rolenames.map(...)`.
UserRoles(formId) ==
  {[formId |-> formId, userId |-> CurrentUser, role |-> r] : r \in Rolenames}

\* src: createForm, `await FormRoleUser.query(trx).insert(userRoles)`.
CFRoles(p) ==
  /\ proc[p].pc = "cf_roles"
  /\ proc' = [proc EXCEPT ![p].pc = "cf_draft",
                           ![p].trx.rins = @ \cup UserRoles(proc[p].formId)]
  /\ UNCHANGED <<store, events, failures, nextUuid>>

\* src: createForm, `await FormVersionDraft.query(trx).insert(draft)`, the
\* unpublished draft holding data.schema.
CFDraft(p) ==
  /\ proc[p].pc = "cf_draft"
  /\ proc' = [proc EXCEPT ![p].pc = "cf_statusCodes",
                           ![p].trx.dins = @ \cup {NewDraft(proc[p])}]
  /\ UNCHANGED <<store, events, failures, nextUuid>>

\* src: createForm, `const defaultStatuses = Object.values(Statuses).map(...)`.
DefaultStatuses(formId) == {[formId |-> formId, code |-> c] : c \in Statuses}

\* src: createForm, `await FormStatusCode.query(trx).insert(defaultStatuses)`.
CFStatusCodes(p) ==
  /\ proc[p].pc = "cf_statusCodes"
  /\ proc' = [proc EXCEPT ![p].pc = "cf_upsert",
                           ![p].trx.scins = @ \cup DefaultStatuses(proc[p].formId)]
  /\ UNCHANGED <<store, events, failures, nextUuid>>

\* src: createForm, `await formMetadataService.upsert(...)` and `await
\* eventStreamConfigService.upsert(...)`, in the transaction: the rows they
\* write are outside this model's state.
CFUpsert(p) ==
  /\ proc[p].pc = "cf_upsert"
  /\ proc' = [proc EXCEPT ![p].pc = "cf_commit"]
  /\ UNCHANGED <<store, events, failures, nextUuid>>

\* src: createForm, `await trx.commit()`.
CFCommit(p) ==
  /\ proc[p].pc = "cf_commit"
  /\ CommitStore(proc[p].trx)
  /\ proc' = [proc EXCEPT ![p].pc = "cf_reread", ![p].committed = TRUE, ![p].trx = EmptyTrx]
  /\ UNCHANGED <<apiKeys, events, failures, nextUuid>>

\* src: createForm, `const result = await service.readForm(obj.id); ... return result`.
CFReread(p) ==
  /\ proc[p].pc = "cf_reread"
  /\ proc' = [proc EXCEPT ![p] =
       IF FormFound(proc[p].formId) THEN Return(proc[p]) ELSE Throw(proc[p], "NotFound")]
  /\ UNCHANGED <<store, events, failures, nextUuid>>

\* ------------------------------------------------------------------ updateForm
\* What scheduleService reports of a schedule at the time of a call:
\* checkIsFormExpired(schedule).expire and .allowLateSubmissions, and whether
\* the open date is in the future in the timezone of the schedule.
Clocks == [expire : BOOLEAN, allowLateSubmissions : BOOLEAN, openInFuture : BOOLEAN]

\* scheduleService.checkIsFormExpired: whether the form is expired at the time
\* of the call, and whether it is then within its late-submission window.
checkIsFormExpired(schedule, clock) ==
  [expire |-> clock.expire, allowLateSubmissions |-> clock.allowLateSubmissions]

\* scheduleService.isDateInFuture: the date is a date and is strictly after the
\* time of the call in the timezone given.
isDateInFuture(date, clock) == isDateValid(date) /\ clock.openInFuture

validateReminderSettingsAsAsked(reminder, schedule, clock) == reminder

\* src: _validateReminderSettings.
validateReminderSettings(reminder, schedule, clock) ==
  IF ~reminder THEN FALSE
  ELSE IF ~schedule.enabled \/ schedule.scheduleType = "unset"
          \/ schedule.scheduleType = "manual"
    THEN FALSE
  ELSE IF schedule.scheduleType = "closingdate"
    THEN LET scheduleStatus == checkIsFormExpired(schedule, clock)
         IN IF scheduleStatus.expire /\ ~scheduleStatus.allowLateSubmissions THEN FALSE
            ELSE IF ~isDateValid(schedule.openSubmissionDateTime) THEN FALSE
            ELSE IF ~isDateInFuture(schedule.openSubmissionDateTime, clock) THEN FALSE
            ELSE TRUE
  ELSE TRUE

\* src: service._validateReminderSettings(data) called on its own.
VRCheck(p) ==
  /\ proc[p].pc = "vr_check"
  /\ proc' = [proc EXCEPT ![p] =
       [Return(proc[p]) EXCEPT !.eligible =
          validateReminderSettings(proc[p].reminder, proc[p].schedule, proc[p].clock)]]
  /\ UNCHANGED <<store, events, failures, nextUuid>>

\* src: updateForm, `const obj = await service.readForm(formId)` and `trx = await
\* Form.startTransaction()`.
UFReadForm(p) ==
  /\ proc[p].pc = "uf_readForm"
  /\ proc' = [proc EXCEPT ![p] =
       IF FormFound(proc[p].formId)
         THEN [proc[p] EXCEPT !.pc = "uf_validate", !.trx.open = TRUE,
                              !.overlapped = OpenTrx(p)]
         ELSE Throw(proc[p], "NotFound")]
  /\ UNCHANGED <<store, events, failures, nextUuid>>

UFValidateSkipping(p) ==
  /\ proc[p].pc = "uf_validate"
  /\ proc' = [proc EXCEPT ![p] =
       [proc[p] EXCEPT !.pc = "uf_patch",
          !.validation = [message |-> "", status |-> "success"],
          !.eligible = validateReminderSettings(proc[p].reminder, proc[p].schedule,
                                                proc[p].clock)]]
  /\ UNCHANGED <<store, events, failures, nextUuid>>

\* src: updateForm, the schedule check made in the transaction (a 422 Problem,
\* caught, rolled back and rethrown) and `const validatedReminderEnabled =
\* service._validateReminderSettings(data)`.
UFValidate(p) ==
  /\ proc[p].pc = "uf_validate"
  /\ proc' = [proc EXCEPT ![p] =
       IF validateScheduleObject(proc[p].schedule).status # "success"
         THEN [Throw(proc[p], "Validation")
                 EXCEPT !.validation = validateScheduleObject(proc[p].schedule)]
         ELSE [proc[p] EXCEPT !.pc = "uf_patch",
                 !.validation = validateScheduleObject(proc[p].schedule),
                 !.eligible = validateReminderSettings(proc[p].reminder, proc[p].schedule,
                                                       proc[p].clock)]]
  /\ UNCHANGED <<store, events, failures, nextUuid>>

UpdDeactivating(r) ==
  [active |-> FALSE,
   enableSubmitterDraft |-> r.enableDraft,
   allowSubmitterToUploadFile |-> setAllowSubmitterToUploadFile(r.isPublic, r.allowUpload),
   schedule |-> r.schedule,
   reminder_enabled |-> r.eligible]

\* src: updateForm, `const upd = {...}`: the fields patched (it has no `active`).
Upd(r) ==
  [enableSubmitterDraft |-> r.enableDraft,
   allowSubmitterToUploadFile |-> setAllowSubmitterToUploadFile(r.isPublic, r.allowUpload),
   schedule |-> r.schedule,
   reminder_enabled |-> r.eligible]

\* src: updateForm, `await Form.query(trx).patchAndFetchById(formId, upd)`.
UFPatch(p) ==
  /\ proc[p].pc = "uf_patch"
  /\ ~BlockedF(p, {proc[p].formId})
  /\ proc' = [proc EXCEPT ![p].pc = "uf_deleteIdps",
                           ![p].trx.fupd = @ \cup {<<proc[p].formId, Upd(proc[p])>>}]
  /\ UNCHANGED <<store, events, failures, nextUuid>>

\* src: updateForm, `await FormIdentityProvider.query(trx).delete().where('formId',
\* obj.id)`; the new links are inserted next when there are any.
UFDeleteIdps(p) ==
  /\ proc[p].pc = "uf_deleteIdps"
  /\ proc' = [proc EXCEPT ![p].pc = IF proc[p].idps # {} THEN "uf_insertIdps" ELSE "uf_upsert",
                           ![p].trx.idel = @ \cup {proc[p].formId}]
  /\ UNCHANGED <<store, events, failures, nextUuid>>

\* src: updateForm, `await FormIdentityProvider.query(trx).insert(fIdps)`.
UFInsertIdps(p) ==
  /\ proc[p].pc = "uf_insertIdps"
  /\ proc' = [proc EXCEPT ![p].pc = "uf_upsert",
                           ![p].trx.iins = @ \cup FormIdps(proc[p].formId, proc[p].idps)]
  /\ UNCHANGED <<store, events, failures, nextUuid>>

\* src: updateForm, the two upserts (see CFUpsert).
UFUpsert(p) ==
  /\ proc[p].pc = "uf_upsert"
  /\ proc' = [proc EXCEPT ![p].pc = "uf_commit"]
  /\ UNCHANGED <<store, events, failures, nextUuid>>

\* src: updateForm, `await trx.commit()`.
UFCommit(p) ==
  /\ proc[p].pc = "uf_commit"
  /\ CommitStore(proc[p].trx)
  /\ proc' = [proc EXCEPT ![p].pc = "uf_reread", ![p].committed = TRUE, ![p].trx = EmptyTrx]
  /\ UNCHANGED <<apiKeys, events, failures, nextUuid>>

\* src: updateForm, `return await service.readForm(obj.id)`.
UFReread(p) ==
  /\ proc[p].pc = "uf_reread"
  /\ proc' = [proc EXCEPT ![p] =
       IF FormFound(proc[p].formId) THEN Return(proc[p]) ELSE Throw(proc[p], "NotFound")]
  /\ UNCHANGED <<store, events, failures, nextUuid>>

\* src: readForm(formId, params) called on its own: the row of that id whose
\* active flag is params.active (true by default), or NotFound.
RFRead(p) ==
  /\ proc[p].pc = "rf_read"
  /\ proc' = [proc EXCEPT ![p] =
       IF proc[p].formId \in DOMAIN forms /\ forms[proc[p].formId].active = proc[p].active
         THEN Return(proc[p])
         ELSE Throw(proc[p], "NotFound")]
  /\ UNCHANGED <<store, events, failures, nextUuid>>

\* -------------------------------------------------------------------- API key
\* src: readApiKey, `FormApiKey.query().modify('filterFormId', formId)`: the
\* committed FormApiKey rows of the form; `.first()` returns one of them.
KeysOf(formId) == {k \in apiKeys : k.formId = formId}

\* The FormApiKey rows (by id) the open transaction of q has updated, and so
\* holds locked.
LockedK(q) == {u[1] : u \in proc[q].trx.kupd}

BlockedK(p, ids) == \E q \in Procs \ {p} : proc[q].trx.open /\ LockedK(q) \cap ids # {}

\* The FormApiKey row k as transaction t commits it.
PatchedKey(t, k) ==
  IF \E u \in t.kupd : u[1] = k.id
    THEN LET patch == (CHOOSE u \in t.kupd : u[1] = k.id)[2]
         IN [f \in DOMAIN k |-> IF f \in DOMAIN patch THEN patch[f] ELSE k[f]]
    ELSE k

\* trx.commit() of a transaction on FormApiKey.
CommitKeys(t) == apiKeys' = {PatchedKey(t, k) : k \in apiKeys} \cup t.kins

\* `FormApiKey.query(trx).modify('filterFormId', formId).update(patch)`: the
\* rows of the form there are when the statement runs are updated.
UpdateKeys(t, formId, patch) ==
  [t EXCEPT !.kupd = {u \in @ : u[1] \notin {k.id : k \in KeysOf(formId)}}
                       \cup {<<k.id, patch>> : k \in KeysOf(formId)}]

\* src: createOrReplaceApiKey, `const currentKey = await service.readApiKey(formId)`
\* and the start of the transaction; `local` is the id of currentKey.
CKRead(p) ==
  /\ proc[p].pc = "ck_read"
  /\ \E k \in IF KeysOf(proc[p].formId) # {} THEN {x.id : x \in KeysOf(proc[p].formId)}
                 ELSE {NoId} :
       proc' = [proc EXCEPT ![p].pc = "ck_write", ![p].local = k, ![p].trx.open = TRUE,
                            ![p].overlapped = OpenTrx(p)]
  /\ UNCHANGED <<store, events, failures, nextUuid>>

\* src: createOrReplaceApiKey, `if (currentKey) {...} else {...}` taken to the
\* else branch: a new row is added.
NewKey(r) == r.local = NoId

\* src: createOrReplaceApiKey, the update of the rows of the form with a new
\* secret (uuid.v4()), or the insert of a new row.
CKWrite(p) ==
  /\ proc[p].pc = "ck_write"
  /\ NewKey(proc[p]) \/ ~BlockedK(p, {k.id : k \in KeysOf(proc[p].formId)})
  /\ proc' = [proc EXCEPT ![p] =
       IF NewKey(proc[p])
         THEN [proc[p] EXCEPT !.pc = "ck_commit", !.newId = nextUuid,
                 !.trx.kins = @ \cup {[id |-> nextUuid, formId |-> proc[p].formId,
                                       secret |-> nextUuid + 1, filesApiAccess |-> FALSE]}]
         ELSE [proc[p] EXCEPT !.pc = "ck_commit", !.newId = nextUuid + 1,
                 !.trx = UpdateKeys(@, proc[p].formId,
                                    [secret |-> nextUuid + 1, filesApiAccess |-> FALSE])]]
  /\ nextUuid' = nextUuid + 2
  /\ UNCHANGED <<store, events, failures>>

\* src: createOrReplaceApiKey / filesApiKeyAccess, `await trx.commit()`.
CKCommit(p) ==
  /\ proc[p].pc \in {"ck_commit", "fk_commit"}
  /\ CommitKeys(proc[p].trx)
  /\ proc' = [proc EXCEPT ![p].pc = "k_reread", ![p].committed = TRUE, ![p].trx = EmptyTrx]
  /\ UNCHANGED <<forms, formRows, versions, drafts, submissions, subUsers, subStatuses,
                 files, events, failures, nextUuid>>

\* src: createOrReplaceApiKey / filesApiKeyAccess, `return service.readApiKey(formId)`
\* (the row, or undefined when there is none).
CKReread(p) ==
  /\ proc[p].pc = "k_reread"
  /\ proc' = [proc EXCEPT ![p] = Return(proc[p])]
  /\ UNCHANGED <<store, events, failures, nextUuid>>

\* The values a caller may pass as filesApiAccess, as written in JavaScript:
\* the two booleans and a string.
FilesApiArgs == {"true", "false", "'true'"}

\* typeof filesApiAccess === 'boolean'
IsBoolean(arg) == arg \in {"true", "false"}

\* src: filesApiKeyAccess, the type check (a 400 Problem), `const currentKey =
\* await service.readApiKey(formId)` and the start of the transaction.
FKRead(p) ==
  /\ proc[p].pc = "fk_read"
  /\ IF ~IsBoolean(proc[p].filesApiAccess)
       THEN proc' = [proc EXCEPT ![p] = Throw(proc[p], "BadRequest")]
       ELSE \E k \in IF KeysOf(proc[p].formId) # {}
                        THEN {x.id : x \in KeysOf(proc[p].formId)} ELSE {NoId} :
              proc' = [proc EXCEPT ![p].pc = "fk_write", ![p].local = k,
                                   ![p].trx.open = TRUE, ![p].overlapped = OpenTrx(p)]
  /\ UNCHANGED <<store, events, failures, nextUuid>>

\* src: filesApiKeyAccess, the update of filesApiAccess on the rows of the form,
\* or a 404 Problem when there was no key.
FKWrite(p) ==
  /\ proc[p].pc = "fk_write"
  /\ proc[p].local = NoId \/ ~BlockedK(p, {k.id : k \in KeysOf(proc[p].formId)})
  /\ proc' = [proc EXCEPT ![p] =
       IF proc[p].local # NoId
         THEN [proc[p] EXCEPT !.pc = "fk_commit",
                 !.trx = UpdateKeys(@, proc[p].formId,
                                    [filesApiAccess |-> proc[p].filesApiAccess = "true"])]
         ELSE Throw(proc[p], "NotFound")]
  /\ UNCHANGED <<store, events, failures, nextUuid>>

\* src: deleteApiKey, `const currentKey = await service.readApiKey(formId)`; with
\* no key `currentKey.id` throws.
DKRead(p) ==
  /\ proc[p].pc = "dk_read"
  /\ IF KeysOf(proc[p].formId) = {}
       THEN proc' = [proc EXCEPT ![p] = Throw(proc[p], "error")]
       ELSE \E k \in KeysOf(proc[p].formId) :
              proc' = [proc EXCEPT ![p].pc = "dk_delete", ![p].local = k.id]
  /\ UNCHANGED <<store, events, failures, nextUuid>>

\* src: deleteApiKey, `FormApiKey.query().deleteById(currentKey.id)
\* .throwIfNotFound()`: no transaction, committed at once.
DKDelete(p) ==
  /\ proc[p].pc = "dk_delete"
  /\ ~BlockedK(p, {proc[p].local})
  /\ apiKeys' = {k \in apiKeys : k.id # proc[p].local}
  /\ proc' = [proc EXCEPT ![p] =
       IF \E k \in apiKeys : k.id = proc[p].local
         THEN Return(proc[p])
         ELSE Throw(proc[p], "NotFound")]
  /\ UNCHANGED <<forms, formRows, versions, drafts, submissions, subUsers, subStatuses,
                 files, events, failures, nextUuid>>

\* ------------------------------------------------------------------ deleteForm
\* src: deleteForm, `const obj = await service.readForm(formId)` and the start of
\* the transaction.
DFReadForm(p) ==
  /\ proc[p].pc = "df_readForm"
  /\ proc' = [proc EXCEPT ![p] =
       IF FormFound(proc[p].formId)
         THEN [proc[p] EXCEPT !.pc = "df_patch", !.trx.open = TRUE, !.overlapped = OpenTrx(p)]
         ELSE Throw(proc[p], "NotFound")]
  /\ UNCHANGED <<store, events, failures, nextUuid>>

\* src: deleteForm, `Form.query(trx).patchAndFetchById(formId, {active: false})`.
DFPatch(p) ==
  /\ proc[p].pc = "df_patch"
  /\ ~BlockedF(p, {proc[p].formId})
  /\ proc' = [proc EXCEPT ![p].pc = "df_readKey",
                           ![p].trx.factive = @ \cup {<<proc[p].formId, FALSE>>}]
  /\ UNCHANGED <<store, events, failures, nextUuid>>

\* src: deleteForm, `if (await service.readApiKey(formId))`: a read outside the
\* transaction.
DFReadKey(p) ==
  /\ proc[p].pc = "df_readKey"
  /\ proc' = [proc EXCEPT ![p].pc =
       IF KeysOf(proc[p].formId) # {} THEN "df_deleteKey" ELSE "df_commit"]
  /\ UNCHANGED <<store, events, failures, nextUuid>>

\* src: deleteApiKey, called by deleteForm: the key is read again and deleted by
\* id, outside the transaction (committed at once); it throws when the key is gone.
DFDeleteKey(p) ==
  /\ proc[p].pc = "df_deleteKey"
  /\ IF KeysOf(proc[p].formId) # {}
       THEN \E k \in KeysOf(proc[p].formId) :
              /\ ~BlockedK(p, {k.id})
              /\ apiKeys' = apiKeys \ {k}
              /\ proc' = [proc EXCEPT ![p].pc = "df_commit"]
       ELSE /\ apiKeys' = apiKeys
            /\ proc' = [proc EXCEPT ![p] = Throw(proc[p], "error")]
  /\ UNCHANGED <<forms, formRows, versions, drafts, submissions, subUsers, subStatuses,
                 files, events, failures, nextUuid>>

\* src: deleteForm, `await trx.commit()`.
DFCommit(p) ==
  /\ proc[p].pc = "df_commit"
  /\ CommitStore(proc[p].trx)
  /\ proc' = [proc EXCEPT ![p].pc = "df_reread", ![p].committed = TRUE, ![p].trx = EmptyTrx]
  /\ UNCHANGED <<apiKeys, events, failures, nextUuid>>

\* src: deleteForm, `return await service.readForm(obj.id, {active: false})`.
DFReread(p) ==
  /\ proc[p].pc = "df_reread"
  /\ proc' = [proc EXCEPT ![p] =
       IF proc[p].formId \in DOMAIN forms /\ ~forms[proc[p].formId].active
         THEN Return(proc[p])
         ELSE Throw(proc[p], "NotFound")]
  /\ UNCHANGED <<store, events, failures, nextUuid>>

\* -------------------------------------------------------- submission data
\* A value of the data tree of a submission: null, a scalar (0 stands for the
\* falsy ones: 0, '', false), an array of values, or an object, its keys in the
\* order of Object.keys, each with its value.
Null == [kind |-> "null", val |-> 0, kids |-> <<>>]

Scalar(v) == [kind |-> "scalar", val |-> v, kids |-> <<>>]

Array(items) == [kind |-> "array", val |-> 0, kids |-> [i \in 1..Len(items) |-> <<"", items[i]>>]]

Object(fields) == [kind |-> "object", val |-> 0, kids |-> fields]

\* The truthiness of a value: `currentData[key] && ...`.
Truthy(node) == node.kind \in {"array", "object"} \/ (node.kind = "scalar" /\ node.val # 0)

\* node[key]: undefined (as falsy as null, and here written Null) unless node is
\* an object that has the key.
Get(node, key) ==
  IF node.kind = "object" /\ \E i \in 1..Len(node.kids) : node.kids[i][1] = key
    THEN node.kids[CHOOSE i \in 1..Len(node.kids) : node.kids[i][1] = key][2]
    ELSE Null

IsFileRefWithoutId(key, value) == key = "data" /\ Truthy(value)

\* src: _findFileIds, `key === 'data' && currentData[key] && currentData[key].id`.
IsFileRef(key, value) == key = "data" /\ Truthy(value) /\ Truthy(Get(value, "id"))

\* src: _findFileIds, findFiles: the ids found in currentData, in the order
\* found.  An array is searched item by item; an object key by key, a key that
\* passes IsFileRef giving the id it holds and not being searched further, any
\* other key being searched; null and scalars hold none.
RECURSIVE findFiles(_), findFilesIn(_)
findFilesIn(kids) ==
  IF kids = <<>>
    THEN <<>>
    ELSE LET key == Head(kids)[1]
             value == Head(kids)[2]
         IN (IF IsFileRef(key, value) THEN <<Get(value, "id").val>> ELSE findFiles(value))
              \o findFilesIn(Tail(kids))

findFiles(currentData) ==
  IF currentData.kind \in {"array", "object"} THEN findFilesIn(currentData.kids) ELSE <<>>

\* src: _findFileIds(schema, data), `return findFiles(data.submission.data)`.
findFileIds(schema, data) == findFiles(data)

\* The value of a file component: the files uploaded, each {data: {id}}.
Upload(ids) == Array([i \in 1..Len(ids) |-> Object(<<<<"data", Object(<<<<"id", Scalar(ids[i])>>>>)>>>>)])

\* The data of the submissions made where the shape of the data is not at
\* stake: no file, or file 1 uploaded.
SubmissionData == {Object(<<>>), Object(<<<<"upload", Upload(<<1>>)>>>>)}

\* Data trees of every shape _findFileIds tells apart (3 is the id of no file).
DataTrees ==
  SubmissionData \cup
  {\* {data: {id: 1}}
   Object(<<<<"data", Object(<<<<"id", Scalar(1)>>>>)>>>>),
   \* {name: 'x', panel: {grid: [{upload: [{data: {id: 1}}, {data: {id: 2}}]}, null]}}
   Object(<<<<"name", Scalar(1)>>,
            <<"panel", Object(<<<<"grid",
                 Array(<<Object(<<<<"upload", Upload(<<1, 2>>)>>>>), Null>>)>>>>)>>>>),
   \* {upload: [{data: {id: 1, versions: [{data: {id: 2}}]}}]}
   Object(<<<<"upload",
              Array(<<Object(<<<<"data",
                   Object(<<<<"id", Scalar(1)>>, <<"versions", Upload(<<2>>)>>>>)>>>>)>>)>>>>),
   \* {data: {name: 'x', upload: [{data: {id: 2}}]}}
   Object(<<<<"data", Object(<<<<"name", Scalar(1)>>, <<"upload", Upload(<<2>>)>>>>)>>>>),
   \* {data: null, upload: [{data: {id: ''}}], other: [{data: {id: 2}}]}
   Object(<<<<"data", Null>>, <<"upload", Upload(<<0>>)>>, <<"other", Upload(<<2>>)>>>>),
   \* {upload: [{data: {id: 3}}, {data: {id: 1}}]}
   Object(<<<<"upload", Upload(<<3, 1>>)>>>>),
   \* {data: [{data: {id: 1}}]}
   Object(<<<<"data", Upload(<<1>>)>>>>)}

\* ------------------------------------------------------------ createSubmission
VersionFound(id) == \E v \in versions : v.id = id

VersionRow(id) == CHOOSE v \in versions : v.id = id

\* src: createSubmission, `const formVersion = await service.readVersion(formVersionId)`.
CSReadVersion(p) ==
  /\ proc[p].pc = "cs_readVersion"
  /\ proc' = [proc EXCEPT ![p] =
       IF VersionFound(proc[p].targetId)
         THEN [proc[p] EXCEPT !.pc = "cs_readForm",
                              !.formId = VersionRow(proc[p].targetId).formId]
         ELSE Throw(proc[p], "NotFound")]
  /\ UNCHANGED <<store, events, failures, nextUuid>>

\* src: createSubmission, `const {identityProviders} = await service.readForm(
\* formVersion.formId)`, the start of the transaction, isPublicForm and
\* submissionId = uuid.v4().
CSReadForm(p) ==
  /\ proc[p].pc = "cs_readForm"
  /\ proc' = [proc EXCEPT ![p] =
       IF FormFound(proc[p].formId)
         THEN [proc[p] EXCEPT !.pc = "cs_insert", !.trx.open = TRUE, !.overlapped = OpenTrx(p),
                              !.isPublic = forms[proc[p].formId].public,
                              !.newId = nextUuid]
         ELSE Throw(proc[p], "NotFound")]
  /\ nextUuid' = IF FormFound(proc[p].formId) THEN nextUuid + 1 ELSE nextUuid
  /\ UNCHANGED <<store, events, failures>>

\* createdBy = isPublicForm ? 'public' : currentUser.usernameIdp
CreatedBy(r) == IF r.isPublic THEN "public" ELSE CurrentUser

\* obj.id: `{id: submissionId, ..., ...data}`, the payload being spread last, its
\* own `id` replaces the generated one.
SubmissionId(r) == IF r.dataId # NoId THEN r.dataId ELSE r.newId

\* The FormSubmission row createSubmission inserts: `{id: submissionId,
\* formVersionId, confirmationId: submissionId.substring(0, 8).toUpperCase(),
\* createdBy, ...data}`; a field of the payload replaces the field of that name
\* written before it.
NewSubmission(r) ==
  [id |-> SubmissionId(r),
   formVersionId |-> r.targetId,
   confirmationId |-> IF r.dataConf # <<>> THEN r.dataConf ELSE ConfirmationId(r.newId),
   draft |-> r.draft,
   createdBy |-> IF r.dataBy # "" THEN r.dataBy ELSE CreatedBy(r),
   data |-> <<>>]

\* FormSubmission.id is the primary key: an insert of a row whose id a row has
\* already is rejected.
DuplicateKey(t, rows) ==
  \E row \in rows : \E old \in submissions \cup t.sins : old.id = row.id

\* FormSubmissionUser.formSubmissionId and FormSubmissionStatus.submissionId are
\* foreign keys: an insert of a row that refers to no FormSubmission is rejected.
RefersToSubmission(t, id) == \E sub \in submissions \cup t.sins : sub.id = id

\* `if (!isPublicForm && !currentUser.public)`
GrantsWanted(r) == ~r.isPublic /\ ~r.userPublic

PermsWithoutDraftCheck(draft) == {"submission_create", "submission_read"}

\* perms: CREATE and READ, and DELETE and UPDATE for a draft.
Perms(draft) ==
  {"submission_create", "submission_read"}
    \cup (IF draft THEN {"submission_delete", "submission_update"} ELSE {})

\* itemsToInsert: one FormSubmissionUser row for each permission, for the
\* current user and the submission id.
GrantRows(id, draft) ==
  {[formSubmissionId |-> id, userId |-> CurrentUser, permission |-> perm] :
     perm \in Perms(draft)}

\* The pc after the submission, grant and status inserts, in the code's order.
AfterInsert(r) ==
  IF GrantsWanted(r) THEN "cs_grants" ELSE IF ~r.draft THEN "cs_status" ELSE "cs_notify"

AfterGrants(r) == IF ~r.draft THEN "cs_status" ELSE "cs_notify"

\* src: createSubmission, `await FormSubmission.query(trx).insert(obj)`.
CSInsert(p) ==
  /\ proc[p].pc = "cs_insert"
  /\ proc' = [proc EXCEPT ![p] =
       IF DuplicateKey(proc[p].trx, {NewSubmission(proc[p])})
         THEN Throw(proc[p], "error")
         ELSE [proc[p] EXCEPT !.pc = AfterInsert(proc[p]),
                              !.trx.sins = @ \cup {NewSubmission(proc[p])}]]
  /\ UNCHANGED <<store, events, failures, nextUuid>>

\* src: createSubmission, `await FormSubmissionUser.query(trx).insert(itemsToInsert)`.
CSGrants(p) ==
  /\ proc[p].pc = "cs_grants"
  /\ proc' = [proc EXCEPT ![p] =
       IF ~RefersToSubmission(proc[p].trx, proc[p].newId)
         THEN Throw(proc[p], "error")
         ELSE [proc[p] EXCEPT !.pc = AfterGrants(proc[p]),
                              !.trx.suins = @ \cup GrantRows(proc[p].newId, proc[p].draft)]]
  /\ UNCHANGED <<store, events, failures, nextUuid>>

\* src: createSubmission, `await FormSubmissionStatus.query(trx).insert(stObj)`.
CSStatus(p) ==
  /\ proc[p].pc = "cs_status"
  /\ proc' = [proc EXCEPT ![p] =
       IF ~RefersToSubmission(proc[p].trx, proc[p].newId)
         THEN Throw(proc[p], "error")
         ELSE [proc[p] EXCEPT !.pc = "cs_notify",
                              !.trx.ssins = @ \cup
                                 {[submissionId |-> proc[p].newId, code |-> "SUBMITTED"]}]]
  /\ UNCHANGED <<store, events, failures, nextUuid>>

\* src: createSubmission, `eventService.formSubmissionEventReceived(formId,
\* formVersion.id, submissionId, data)`: a call made (not awaited) after the
\* inserts and before the file patches and trx.commit(); then `const fileIds =
\* service._findFileIds(formVersion.schema, data)`.
CSNotify(p) ==
  /\ proc[p].pc = "cs_notify"
  /\ events' = events \cup {Event("eventService", "formSubmissionEventReceived", p,
                                    proc[p].formId, proc[p].newId, proc[p].draft)}
  /\ LET fileIds == findFileIds(proc[p].schema, proc[p].subData)
     IN proc' = [proc EXCEPT ![p].pc = IF fileIds # <<>> THEN "cs_files" ELSE "cs_commit",
                              ![p].dataFiles = {fileIds[i] : i \in 1..Len(fileIds)}]
  /\ UNCHANGED <<store, failures, nextUuid>>

\* src: createSubmission, `for (const fileId of fileIds) await FileStorage.query(trx)
\* .patchAndFetchById(fileId, {formSubmissionId: obj.id})`.
CSFiles(p) ==
  /\ proc[p].pc = "cs_files"
  /\ proc' = [proc EXCEPT ![p].pc = "cs_commit",
                           ![p].trx.flink = @ \cup
                              {<<f, SubmissionId(proc[p])>> :
                                 f \in proc[p].dataFiles \cap DOMAIN files}]
  /\ UNCHANGED <<store, events, failures, nextUuid>>

\* src: createSubmission, `await trx.commit()`.
CSCommit(p) ==
  /\ proc[p].pc = "cs_commit"
  /\ CommitStore(proc[p].trx)
  /\ proc' = [proc EXCEPT ![p].pc = "cs_reread", ![p].committed = TRUE, ![p].trx = EmptyTrx]
  /\ UNCHANGED <<apiKeys, events, failures, nextUuid>>

\* src: createSubmission, `result = await service.readSubmission(obj.id)`.
CSReread(p) ==
  /\ proc[p].pc = "cs_reread"
  /\ proc' = [proc EXCEPT ![p] =
       IF \E sub \in submissions : sub.id = SubmissionId(proc[p])
         THEN [proc[p] EXCEPT !.pc = "cs_onSubmit"]
         ELSE Throw(proc[p], "NotFound")]
  /\ UNCHANGED <<store, events, failures, nextUuid>>

\* src: createSubmission, `if (result) { await eventStreamService.onSubmit(
\* SUBMISSION_EVENT_TYPES.CREATED, result, data.draft); return result; }`.
CSOnSubmit(p) ==
  /\ proc[p].pc = "cs_onSubmit"
  /\ events' = events \cup {Event("eventStreamService", "onSubmit", p,
                                    proc[p].formId, SubmissionId(proc[p]), proc[p].draft)}
  /\ proc' = [proc EXCEPT ![p] = Return(proc[p])]
  /\ UNCHANGED <<store, failures, nextUuid>>

\* ------------------------------------------------------- createMultiSubmission
\* Number of records in a bulk payload.
MaxRecords == 2

\* `delete obj[key]` for each key of keys.
Omit(obj, keys) == [k \in DOMAIN obj \ keys |-> obj[k]]

\* src: popFormLevelInfo, propsToRemove.
propsToRemove ==
  {"confirmationId", "formName", "version", "createdAt", "fullName", "username", "email",
   "status", "assignee", "assigneeEmail"}

\* src: popFormLevelInfo, the body of the forEach: `delete submission.submit;
\* delete submission.lateEntry; if (Object.hasOwn(submission, 'form'))
\* propsToRemove.forEach((key) => delete submission.form[key])`.
PopRecord(submission) ==
  LET kept == Omit(submission, {"submit", "lateEntry"})
  IN IF "form" \in DOMAIN kept
       THEN [k \in DOMAIN kept |->
               IF k = "form" THEN Omit(kept.form, propsToRemove) ELSE kept[k]]
       ELSE kept

\* src: popFormLevelInfo.
popFormLevelInfo(jsonPayload) ==
  IF Len(jsonPayload) # 0
    THEN [i \in 1..Len(jsonPayload) |-> PopRecord(jsonPayload[i])]
    ELSE jsonPayload

\* Records of a bulk payload: one taken from an export (submit, lateEntry and a
\* `form` block of display fields), one that carries fields of those names on
\* the record itself, and one with submission fields only.
ExportedRecord ==
  [firstName |-> "Ann", submit |-> "true", lateEntry |-> "false",
   form |-> [confirmationId |-> "3A1F0C2B", formName |-> "Survey", status |-> "SUBMITTED",
             submissionId |-> "3a1f0c2b-0001"]]

FlatRecord == [firstName |-> "Bob", confirmationId |-> "3A1F0C2B", email |-> "bob@example.org"]

PlainRecord == [firstName |-> "Cy"]

PayloadRecords == {ExportedRecord, FlatRecord, PlainRecord}

\* data.submission.data: an array of records.
Payloads == UNION {[1..n -> PayloadRecords] : n \in 0..MaxRecords}

\* src: createMultiSubmission, `const formVersion = await service.readVersion(
\* formVersionId)`.
CMSReadVersion(p) ==
  /\ proc[p].pc = "cms_readVersion"
  /\ proc' = [proc EXCEPT ![p] =
       IF VersionFound(proc[p].targetId)
         THEN [proc[p] EXCEPT !.pc = "cms_readForm",
                              !.formId = VersionRow(proc[p].targetId).formId]
         ELSE Throw(proc[p], "NotFound")]
  /\ UNCHANGED <<store, events, failures, nextUuid>>

MultiAllowedWithoutUploadCheck(form, userPublic) ==
  /\ form.enableSubmitterDraft
  /\ ~form.public /\ ~userPublic

\* src: createMultiSubmission, the three conditions under which it goes on:
\* `if (!enableSubmitterDraft) throw ...`, `if (!allowSubmitterToUploadFile)
\* throw ...`, `if (!isPublicForm && !currentUser.public) {...} else throw ...`.
MultiAllowed(form, userPublic) ==
  /\ form.enableSubmitterDraft
  /\ form.allowSubmitterToUploadFile
  /\ ~form.public /\ ~userPublic

RecordsToInsertReversed(r, first) ==
  [i \in 1..Len(r.records) |->
     [id |-> first + i - 1,
      formVersionId |-> r.targetId,
      confirmationId |-> ConfirmationId(first + i - 1),
      draft |-> r.draft,
      createdBy |-> CurrentUser,
      data |-> r.records[Len(r.records) + 1 - i]]]

\* recordsToInsert: for each record of the sanitized payload, in its order,
\* `{...recordWithoutData, id: submissionId, formVersionId, confirmationId:
\* submissionId.substring(0, 8).toUpperCase(), createdBy, submission: {...,
\* data: singleData}}`, the ids being generated one after the other from `first`.
RecordsToInsert(r, first) ==
  [i \in 1..Len(r.records) |->
     [id |-> first + i - 1,
      formVersionId |-> r.targetId,
      confirmationId |-> ConfirmationId(first + i - 1),
      draft |-> r.draft,
      createdBy |-> CurrentUser,
      data |-> r.records[i]]]

Range(seq) == {seq[i] : i \in 1..Len(seq)}

\* src: createMultiSubmission, `await service.readForm(formVersion.formId)`, the
\* three refusals (a 401 Problem each, thrown before any transaction starts),
\* then the start of the transaction, popFormLevelInfo and recordsToInsert.
CMSReadForm(p) ==
  /\ proc[p].pc = "cms_readForm"
  /\ LET go == FormFound(proc[p].formId)
                 /\ MultiAllowed(forms[proc[p].formId], proc[p].userPublic)
     IN /\ proc' = [proc EXCEPT ![p] =
             IF ~FormFound(proc[p].formId) THEN Throw(proc[p], "NotFound")
             ELSE IF ~go THEN Throw(proc[p], "Problem401")
             ELSE [proc[p] EXCEPT !.pc = "cms_insert", !.trx.open = TRUE,
                                  !.overlapped = OpenTrx(p),
                                  !.isPublic = forms[proc[p].formId].public,
                                  !.records = popFormLevelInfo(proc[p].payload),
                                  !.local = nextUuid]]
        /\ nextUuid' = IF go THEN nextUuid + Len(proc[p].payload) ELSE nextUuid
  /\ UNCHANGED <<store, events, failures>>

\* src: createMultiSubmission, `const result = await FormSubmission.query(trx)
\* .insert(recordsToInsert)`.
CMSInsert(p) ==
  /\ proc[p].pc = "cms_insert"
  /\ LET rows == RecordsToInsert(proc[p], proc[p].local)
     IN proc' = [proc EXCEPT ![p] =
          IF DuplicateKey(proc[p].trx, Range(rows))
            THEN Throw(proc[p], "error")
            ELSE [proc[p] EXCEPT !.pc = "cms_grants", !.result = rows,
                                 !.trx.sins = @ \cup Range(rows)]]
  /\ UNCHANGED <<store, events, failures, nextUuid>>

\* src: createMultiSubmission, perms, itemsToInsert (the rows of perms for each
\* row of result) and `await FormSubmissionUser.query(trx).insert(itemsToInsert)`.
CMSGrants(p) ==
  /\ proc[p].pc = "cms_grants"
  /\ proc' = [proc EXCEPT ![p].pc = "cms_commit",
                           ![p].trx.suins = @ \cup
                              UNION {GrantRows(row.id, proc[p].draft) :
                                       row \in Range(proc[p].result)}]
  /\ UNCHANGED <<store, events, failures, nextUuid>>

\* src: createMultiSubmission, `await trx.commit(); return result;`.
CMSCommit(p) ==
  /\ proc[p].pc = "cms_commit"
  /\ CommitStore(proc[p].trx)
  /\ proc' = [proc EXCEPT ![p] = [Return(proc[p]) EXCEPT !.committed = TRUE]]
  /\ UNCHANGED <<apiKeys, events, failures, nextUuid>>

\* ------------------------------------------- the awaited event-stream call
\* The pcs at which a call awaits eventStreamService.onPublish / onSubmit.
RelaySteps == {"pv_onPublish", "pd_onPublish", "cs_onSubmit"}

\* The call made to eventStreamService by p: onPublish(formId, formVersionId,
\* publish), onPublish(formId, version.id, version.published) or
\* onSubmit(CREATED, result, data.draft).
RelayEvent(p) ==
  IF proc[p].op = "publishVersion"
    THEN Event("eventStreamService", "onPublish", p, proc[p].formId, proc[p].targetId,
               proc[p].publish)
  ELSE IF proc[p].op = "publishDraft"
    THEN Event("eventStreamService", "onPublish", p, proc[p].formId, proc[p].newId, TRUE)
  ELSE Event("eventStreamService", "onSubmit", p, proc[p].formId,
             SubmissionId(proc[p]), proc[p].draft)

\* src: `await eventStreamService.onPublish(...)` / `await eventStreamService
\* .onSubmit(...)`, the awaited promise rejecting.  The await stands after the
\* try / catch of the operation: the rejection is the rejection of the call, and
\* `return result` is not reached.
RelayReject(p) ==
  /\ proc[p].pc \in RelaySteps
  /\ events' = events \cup {RelayEvent(p)}
  /\ proc' = [proc EXCEPT ![p] = [Throw(proc[p], "error") EXCEPT !.relay = "rejected"]]
  /\ UNCHANGED <<store, failures, nextUuid>>

\* src: the same await, the promise not settling (the broker cannot be reached
\* and the publish does not complete): the call stays suspended at the await.
RelayHang(p) ==
  /\ proc[p].pc \in RelaySteps
  /\ events' = events \cup {RelayEvent(p)}
  /\ proc' = [proc EXCEPT ![p].pc = "relay_wait", ![p].relay = "pending"]
  /\ UNCHANGED <<store, failures, nextUuid>>

\* ------------------------------------------------------- a rejected statement
\* The awaited database statements inside the try blocks: any of them may
\* reject (a lost connection, a deadlock, a failed commit).
DbSteps ==
  {"pv_readForm", "pv_patchAll", "pv_patchOne", "pv_commit", "pv_reread",
   "pd_readForm", "pd_readDraft", "pd_patchAll", "pd_insert", "pd_deleteDraft",
   "pd_commit", "pd_reread",
   "cd_readForm", "cd_insert", "cd_commit", "cd_reread",
   "ud_readDraft", "ud_patch", "ud_commit", "ud_reread",
   "cf_insert", "cf_idps", "cf_roles", "cf_draft", "cf_statusCodes", "cf_upsert",
   "cf_commit", "cf_reread",
   "uf_readForm", "uf_patch", "uf_deleteIdps", "uf_insertIdps", "uf_upsert",
   "uf_commit", "uf_reread", "rf_read",
   "ck_read", "ck_write", "ck_commit", "k_reread", "fk_read", "fk_write", "fk_commit",
   "dk_read", "dk_delete",
   "df_readForm", "df_patch", "df_readKey", "df_deleteKey", "df_commit", "df_reread",
   "cs_readVersion", "cs_readForm", "cs_insert", "cs_grants", "cs_status",
   "cs_files", "cs_commit", "cs_reread", "dd_delete",
   "cms_readVersion", "cms_readForm", "cms_insert", "cms_grants", "cms_commit"}

\* The statement p awaits rejects: it has no effect, and the catch block of the
\* call rolls the transaction back (when it has not committed) and rethrows.
Fail(p) ==
  /\ proc[p].pc \in DbSteps
  /\ failures < MaxFailures
  /\ failures' = failures + 1
  /\ proc' = [proc EXCEPT ![p] = Throw(proc[p], "error")]
  /\ UNCHANGED <<store, events, nextUuid>>

\* ------------------------------------------------- identity mode of a form
\* IdentityMode: how the users of a form are identified.
IdentityMode == {"team", "login", "public"}

\* Number of identity providers of a form in login mode.
MaxIdps == 3

\* The identity providers a form in login mode names.
LoginIdps == {"idir", "bceid-basic"}

\* The idps of a form: lists of login providers, in the order chosen.
IdpLists == UNION {[1..n -> LoginIdps] : n \in 0..MaxIdps}

generateIdpsReversed(x) ==
  IF x.userType = "login"
    THEN [i \in 1..Len(x.idps) |-> [code |-> x.idps[Len(x.idps) + 1 - i]]]
    ELSE IF x.userType = "public" THEN <<[code |-> "public"]>> ELSE <<>>

\* generateIdps({idps, userType}): the identity-provider list of a form: none
\* for team (and for no userType), [{code: 'public'}] for public, and for login
\* [{code: c}] for each c of idps, in the order of idps.
generateIdps(x) ==
  IF x.userType = "login"
    THEN [i \in 1..Len(x.idps) |-> [code |-> x.idps[i]]]
    ELSE IF x.userType = "public" THEN <<[code |-> "public"]>> ELSE <<>>

\* parseIdps(identityProviders): the identity mode and the idps of a list:
\* team for an empty (or undefined) list, public (and no idps) for [{code:
\* 'public'}], login with the codes of the list otherwise.
parseIdps(identityProviders) ==
  IF identityProviders = <<>>
    THEN [idps |-> <<>>, userType |-> "team"]
    ELSE IF identityProviders[1].code = "public"
      THEN [idps |-> <<>>, userType |-> "public"]
      ELSE [idps |-> [i \in 1..Len(identityProviders) |-> identityProviders[i].code],
            userType |-> "login"]

\* generateIdps(x) is called.
GenerateIdps(p) ==
  /\ proc[p].pc = "gi_generate"
  /\ proc' = [proc EXCEPT ![p].pc = "pi_parse",
                           ![p].identityProviders =
                              generateIdps([idps |-> proc[p].idpList,
                                            userType |-> proc[p].userType])]
  /\ UNCHANGED <<store, events, failures, nextUuid>>

\* parseIdps is called with what generateIdps returned.
ParseIdps(p) ==
  /\ proc[p].pc = "pi_parse"
  /\ proc' = [proc EXCEPT ![p] =
       [Return(proc[p]) EXCEPT !.parsed = parseIdps(proc[p].identityProviders)]]
  /\ UNCHANGED <<store, events, failures, nextUuid>>

\* ------------------------------------------------------------- calls made
\* The state the program is in when the calls of a behaviour begin: form 1 (not
\* public, with an API key) has had two drafts published, so its version 1 is
\* superseded and its version 2 is published, and has a new draft; form 2
\* (public) has had one draft published and has a new draft.
InitForms ==
  (1 :> [active |-> TRUE, public |-> FALSE,
         enableSubmitterDraft |-> TRUE, allowSubmitterToUploadFile |-> TRUE,
         schedule |-> DisabledSchedule, reminder_enabled |-> FALSE])
  @@ (2 :> [active |-> TRUE, public |-> TRUE,
            enableSubmitterDraft |-> TRUE, allowSubmitterToUploadFile |-> FALSE,
            schedule |-> DisabledSchedule, reminder_enabled |-> FALSE])

InitVersions ==
  {[id |-> 3, formId |-> 1, version |-> 1, published |-> FALSE, schema |-> 1, fromDraft |-> NoId],
   [id |-> 4, formId |-> 1, version |-> 2, published |-> TRUE, schema |-> 2, fromDraft |-> NoId],
   [id |-> 5, formId |-> 2, version |-> 1, published |-> TRUE, schema |-> 1, fromDraft |-> NoId]}

InitDrafts == {[id |-> 6, formId |-> 1, schema |-> 1], [id |-> 7, formId |-> 2, schema |-> 1]}

InitRows ==
  /\ versions = InitVersions
  /\ drafts = InitDrafts
  /\ submissions = {}
  /\ subUsers = {}
  /\ subStatuses = {}
  /\ files = [f \in FileIds |-> NoId]
  /\ apiKeys = {[id |-> 1, formId |-> 1, secret |-> 2, filesApiAccess |-> FALSE]}
  /\ formIdps = FormIdps(1, {"idir"}) \cup FormIdps(2, {"public"})
  /\ formRoles = UserRoles(1) \cup UserRoles(2)
  /\ formStatusCodes = DefaultStatuses(1) \cup DefaultStatuses(2)
  /\ events = {}
  /\ failures = 0
  /\ nextUuid = 8

Init ==
  /\ forms = InitForms
  /\ InitRows
  /\ proc = [p \in Procs |-> IdleProc]

\* The same, form 1 having any of the settings of enableSubmitterDraft and
\* allowSubmitterToUploadFile (a public form never has the latter, see
\* _setAllowSubmitterToUploadFile).
SubmitInit ==
  /\ \E d \in BOOLEAN, u \in BOOLEAN :
       forms = [InitForms EXCEPT ![1].enableSubmitterDraft = d,
                                 ![1].allowSubmitterToUploadFile = u]
  /\ InitRows
  /\ proc = [p \in Procs |-> IdleProc]

\* The ids a caller may pass: those of the rows there are, of the drafts there
\* were, and one that names no row.
FormArgs == DOMAIN forms \cup {NoId}

VersionArgs == {v.id : v \in versions} \cup {NoId}

DraftArgs == {d.id : d \in drafts \cup InitDrafts} \cup {NoId}

InFlight(q) == proc[q].pc \notin {"idle", "done"}

\* Call p may begin: calls begin in the order of their numbers; when
\* `overlap` is FALSE a call begins only when no other call is in flight.
Begin(p, overlap) ==
  /\ proc[p].pc = "idle"
  /\ \A q \in Procs : q < p => proc[q].pc # "idle"
  /\ overlap \/ \A q \in Procs : ~InFlight(q)

\* The record of a call that has ended is kept until the next call begins, and is
\* then dropped together with the events it made: the properties read a call's
\* record when the call ends.
Forget(r) == IF r.pc = "done" THEN [IdleProc EXCEPT !.pc = "done"] ELSE r

\* Call p begins with record r.
Enter(p, r) ==
  /\ proc' = [q \in Procs |-> IF q = p THEN r ELSE Forget(proc[q])]
  /\ events' = {e \in events : InFlight(e.by)}
  /\ UNCHANGED <<store, failures, nextUuid>>

Started(op, pc, formId, targetId) ==
  [IdleProc EXCEPT !.op = op, !.pc = pc, !.formId = formId, !.targetId = targetId,
                   !.snapV = versions, !.snapD = drafts,
                   !.snapS = submissions, !.snapU = subUsers,
                   !.snapF = forms, !.snapR = formRows, !.snapK = apiKeys,
                   !.snapL = files]

\* src: publishVersion, `const publish = params.unpublish ? falsey(params.unpublish)
\* : true`, for params.unpublish absent (FALSE) or affirmative (TRUE).
PublishFlag(unpublish) == IF unpublish THEN FALSE ELSE TRUE

CallPublishVersion(p, overlap) ==
  /\ Begin(p, overlap)
  /\ \E f \in FormArgs, v \in VersionArgs, unpublish \in BOOLEAN :
       Enter(p,
         [Started("publishVersion", "pv_readForm", f, v) EXCEPT !.publish = PublishFlag(unpublish)])

CallPublishDraft(p, overlap) ==
  /\ Begin(p, overlap)
  /\ \E f \in FormArgs, d \in DraftArgs :
       Enter(p, Started("publishDraft", "pd_readForm", f, d))

CallCreateDraft(p, overlap) ==
  /\ Begin(p, overlap)
  /\ \E f \in FormArgs, sch \in Schemas :
       Enter(p,
         [Started("createDraft", "cd_readForm", f, NoId) EXCEPT !.schema = sch])

CallUpdateDraft(p, overlap) ==
  /\ Begin(p, overlap)
  /\ \E d \in DraftArgs, sch \in Schemas :
       Enter(p,
         [Started("updateDraft", "ud_readDraft", NoId, d) EXCEPT !.schema = sch])

CallDeleteDraft(p, overlap) ==
  /\ Begin(p, overlap)
  /\ \E d \in DraftArgs :
       Enter(p, Started("deleteDraft", "dd_delete", NoId, d))

\* createForm(data, currentUser) with data.schedule, data.identityProviders,
\* data.schema and data.reminder_enabled as given.
CreateFormCall(sched, codes, sch, rem) ==
  [Started("createForm", "cf_validate", NoId, NoId)
     EXCEPT !.schedule = sched, !.idps = codes, !.isPublic = "public" \in codes,
            !.schema = sch, !.reminder = rem]

CallCreateForm(p, overlap) ==
  /\ Begin(p, overlap)
  /\ \E sched \in {DisabledSchedule, NoCloseDateSchedule}, codes \in {{}, {"public"}} :
       Enter(p, CreateFormCall(sched, codes, 1, FALSE))

\* updateForm(formId, data, currentUser), made at a time described by clock.
UpdateFormCall(f, sched, codes, rem, clock) ==
  [Started("updateForm", "uf_readForm", f, NoId)
     EXCEPT !.schedule = sched, !.idps = codes, !.isPublic = "public" \in codes,
            !.reminder = rem, !.clock = clock]

\* A schedule that closes on a date, with all that validateScheduleObject asks.
ClosingSchedule ==
  Schedule(TRUE, "valid", "closingdate", "valid", FALSE, FALSE, FALSE, FALSE, FALSE)

CallUpdateForm(p, overlap) ==
  /\ Begin(p, overlap)
  /\ \E f \in FormArgs, sched \in {ClosingSchedule, NoCloseDateSchedule},
        codes \in {{"idir"}, {"public"}}, rem \in BOOLEAN,
        future \in BOOLEAN :
       Enter(p, UpdateFormCall(f, sched, codes, rem,
                               [expire |-> FALSE, allowLateSubmissions |-> FALSE,
                                openInFuture |-> future]))

\* createForm with any of the identity provider codes a caller may name.
CallCreateFormWithIdps(p, overlap) ==
  /\ Begin(p, overlap)
  /\ \E sched \in {DisabledSchedule, NoCloseDateSchedule},
        codes \in {{}, {"public"}, {"idir", "bceid-basic"}, {"github"}},
        sch \in Schemas :
       Enter(p, CreateFormCall(sched, codes, sch, FALSE))

\* readForm(formId, params), params.active being absent (true) or false.
CallReadForm(p, overlap) ==
  /\ Begin(p, overlap)
  /\ \E f \in FormArgs, active \in BOOLEAN :
       Enter(p, [Started("readForm", "rf_read", f, NoId) EXCEPT !.active = active])

CallCreateOrReplaceApiKey(p, overlap) ==
  /\ Begin(p, overlap)
  /\ \E f \in DOMAIN forms :
       Enter(p, Started("createOrReplaceApiKey", "ck_read", f, NoId))

CallFilesApiKeyAccess(p, overlap) ==
  /\ Begin(p, overlap)
  /\ \E f \in DOMAIN forms, access \in FilesApiArgs :
       Enter(p, [Started("filesApiKeyAccess", "fk_read", f, NoId)
                   EXCEPT !.filesApiAccess = access])

CallDeleteApiKey(p, overlap) ==
  /\ Begin(p, overlap)
  /\ \E f \in DOMAIN forms :
       Enter(p, Started("deleteApiKey", "dk_read", f, NoId))

CallDeleteForm(p, overlap) ==
  /\ Begin(p, overlap)
  /\ \E f \in FormArgs :
       Enter(p, Started("deleteForm", "df_readForm", f, NoId))

\* createSubmission(formVersionId, data, currentUser), the payload carrying an
\* id of ids and a confirmationId of confs.
CallCreateSubmissionWith(p, overlap, ids, confs) ==
  /\ Begin(p, overlap)
  /\ \E v \in VersionArgs, dr \in BOOLEAN, data \in SubmissionData, anon \in BOOLEAN,
        id \in ids, conf \in confs :
       Enter(p,
         [Started("createSubmission", "cs_readVersion", NoId, v)
            EXCEPT !.draft = dr, !.subData = data, !.userPublic = anon,
                   !.dataId = id, !.dataConf = conf])

\* createSubmission with a payload that has no id and no confirmationId.
CallCreateSubmission(p, overlap) == CallCreateSubmissionWith(p, overlap, {NoId}, {<<>>})

CallCreateMultiSubmission(p, overlap) ==
  /\ Begin(p, overlap)
  /\ \E v \in VersionArgs, dr \in BOOLEAN, anon \in BOOLEAN, data \in Payloads :
       Enter(p,
         [Started("createMultiSubmission", "cms_readVersion", NoId, v)
            EXCEPT !.draft = dr, !.userPublic = anon, !.payload = data])

Call(p, overlap) ==
  \/ CallPublishVersion(p, overlap)
  \/ CallPublishDraft(p, overlap)
  \/ CallCreateDraft(p, overlap)
  \/ CallUpdateDraft(p, overlap)
  \/ CallDeleteDraft(p, overlap)
  \/ CallCreateForm(p, overlap)
  \/ CallDeleteForm(p, overlap)
  \/ CallCreateSubmission(p, overlap)

Step(p) ==
  \/ PVReadForm(p) \/ PVPatchAll(p) \/ PVPatchOne(p) \/ PVCommit(p) \/ PVReread(p)
  \/ PVOnPublish(p)
  \/ PDReadForm(p) \/ PDReadDraft(p) \/ PDPatchAll(p) \/ PDInsert(p) \/ PDDeleteDraft(p)
  \/ PDCommit(p) \/ PDReread(p) \/ PDOnPublish(p)
  \/ CDReadForm(p) \/ CDInsert(p) \/ CDCommit(p) \/ CDReread(p)
  \/ UDReadDraft(p) \/ UDPatch(p) \/ UDCommit(p) \/ UDReread(p)
  \/ DDDelete(p)
  \/ CFValidate(p) \/ CFInsert(p) \/ CFIdps(p) \/ CFRoles(p) \/ CFDraft(p)
  \/ CFStatusCodes(p) \/ CFUpsert(p) \/ CFCommit(p) \/ CFReread(p)
  \/ DFReadForm(p) \/ DFPatch(p) \/ DFReadKey(p) \/ DFDeleteKey(p) \/ DFCommit(p)
  \/ DFReread(p)
  \/ CSReadVersion(p) \/ CSInsert(p) \/ CSReadForm(p) \/ CSGrants(p) \/ CSStatus(p)
  \/ CSNotify(p) \/ CSFiles(p) \/ CSCommit(p) \/ CSReread(p) \/ CSOnSubmit(p)
  \/ RelayReject(p) \/ RelayHang(p)
  \/ Fail(p)

\* Calls overlap: each runs from await to await, interleaved with the others.
Next == \E p \in Procs : Call(p, TRUE) \/ Step(p)

Spec == Init /\ [][Next]_vars

\* Calls are made one after the other: each runs to its end before the next begins.
SeqNext == \E p \in Procs : Call(p, FALSE) \/ Step(p)

SeqSpec == Init /\ [][SeqNext]_vars

\* The calls that read or write FormVersion rows or the forms that own them,
\* made one after the other.
PublishCall(p) ==
  \/ CallPublishVersion(p, FALSE)
  \/ CallPublishDraft(p, FALSE)
  \/ CallCreateDraft(p, FALSE)
  \/ CallDeleteForm(p, FALSE)

PublishStep(p) ==
  \/ PVReadForm(p) \/ PVPatchAll(p) \/ PVPatchOne(p) \/ PVCommit(p) \/ PVReread(p)
  \/ PVOnPublish(p)
  \/ PDReadForm(p) \/ PDReadDraft(p) \/ PDPatchAll(p) \/ PDInsert(p) \/ PDDeleteDraft(p)
  \/ PDCommit(p) \/ PDReread(p) \/ PDOnPublish(p)
  \/ CDReadForm(p) \/ CDInsert(p) \/ CDCommit(p) \/ CDReread(p)
  \/ DFReadForm(p) \/ DFPatch(p) \/ DFReadKey(p) \/ DFDeleteKey(p) \/ DFCommit(p)
  \/ DFReread(p)
  \/ RelayReject(p) \/ RelayHang(p)
  \/ Fail(p)

PublishSeqNext == \E p \in Procs : PublishCall(p) \/ PublishStep(p)

PublishSeqSpec == Init /\ [][PublishSeqNext]_vars

\* createForm(data, currentUser) has been called with any schedule.
ScheduleInit ==
  /\ forms = InitForms
  /\ InitRows
  /\ \E sched \in AllSchedules, codes \in {{}, {"public"}} :
       proc = [p \in Procs |->
                 IF p = 1 THEN CreateFormCall(sched, codes, 1, FALSE) ELSE IdleProc]

\* One createForm with any schedule: validateScheduleObject applied to it, and
\* what createForm does with the verdict.
ScheduleStep(p) ==
  \/ CFValidate(p) \/ CFInsert(p) \/ CFIdps(p) \/ CFRoles(p) \/ CFDraft(p)
  \/ CFStatusCodes(p) \/ CFUpsert(p) \/ CFCommit(p) \/ CFReread(p)
  \/ Fail(p)

ScheduleNext == \E p \in Procs : ScheduleStep(p)

ScheduleSpec == ScheduleInit /\ [][ScheduleNext]_vars

\* A call may take a step when the calls before it have ended.
InTurn(p) == \A q \in Procs : q < p => ~InFlight(q)

\* createForm and then updateForm of form 1 have been called with the same
\* schedule, any schedule, the other inputs of the two calls being any.
CreateUpdateInit ==
  /\ forms = InitForms
  /\ InitRows
  /\ \E sched \in AllSchedules, codes \in {{}, {"public"}}, ucodes \in {{"idir"}, {"public"}},
        crem \in BOOLEAN, rem \in BOOLEAN :
       proc = [p \in Procs |->
                 IF p = 1 THEN CreateFormCall(sched, codes, 1, crem)
                 ELSE IF p = 2
                   THEN UpdateFormCall(1, sched, ucodes, rem,
                                       [expire |-> FALSE, allowLateSubmissions |-> FALSE,
                                        openInFuture |-> TRUE])
                 ELSE IdleProc]

UpdateFormStep(p) ==
  \/ UFReadForm(p) \/ UFValidate(p) \/ UFPatch(p) \/ UFDeleteIdps(p) \/ UFInsertIdps(p)
  \/ UFUpsert(p) \/ UFCommit(p) \/ UFReread(p)

CreateUpdateNext == \E p \in Procs : InTurn(p) /\ (ScheduleStep(p) \/ UpdateFormStep(p))

CreateUpdateSpec == CreateUpdateInit /\ [][CreateUpdateNext]_vars

\* _validateReminderSettings(data) and then updateForm(1, data) have been called
\* with the same data, any schedule and reminder_enabled, at any time.
ReminderInit ==
  /\ forms = InitForms
  /\ InitRows
  /\ \E sched \in AllSchedules, rem \in BOOLEAN, clock \in Clocks :
       proc = [p \in Procs |->
                 IF p = 1
                   THEN [Started("_validateReminderSettings", "vr_check", NoId, NoId)
                           EXCEPT !.schedule = sched, !.reminder = rem, !.clock = clock]
                 ELSE IF p = 2 THEN UpdateFormCall(1, sched, {"idir"}, rem, clock)
                 ELSE IdleProc]

ReminderNext == \E p \in Procs : InTurn(p) /\ (VRCheck(p) \/ UpdateFormStep(p) \/ Fail(p))

ReminderSpec == ReminderInit /\ [][ReminderNext]_vars

\* The calls that create, read, update and delete forms, made one after the other.
FormCall(p) ==
  \/ CallCreateFormWithIdps(p, FALSE)
  \/ CallUpdateForm(p, FALSE)
  \/ CallDeleteForm(p, FALSE)
  \/ CallReadForm(p, FALSE)

FormStep(p) ==
  \/ ScheduleStep(p)
  \/ UpdateFormStep(p)
  \/ DFReadForm(p) \/ DFPatch(p) \/ DFReadKey(p) \/ DFDeleteKey(p) \/ DFCommit(p)
  \/ DFReread(p)
  \/ RFRead(p)

FormSeqNext == \E p \in Procs : FormCall(p) \/ FormStep(p)

FormSeqSpec == Init /\ [][FormSeqNext]_vars

\* The calls that write FormApiKey rows, overlapping.
ApiKeyCall(p) ==
  \/ CallCreateOrReplaceApiKey(p, TRUE)
  \/ CallFilesApiKeyAccess(p, TRUE)
  \/ CallDeleteApiKey(p, TRUE)
  \/ CallDeleteForm(p, TRUE)

ApiKeyStep(p) ==
  \/ CKRead(p) \/ CKWrite(p) \/ CKCommit(p) \/ CKReread(p)
  \/ FKRead(p) \/ FKWrite(p)
  \/ DKRead(p) \/ DKDelete(p)
  \/ DFReadForm(p) \/ DFPatch(p) \/ DFReadKey(p) \/ DFDeleteKey(p) \/ DFCommit(p)
  \/ DFReread(p)
  \/ Fail(p)

ApiKeyNext == \E p \in Procs : ApiKeyCall(p) \/ ApiKeyStep(p)

ApiKeySpec == Init /\ [][ApiKeyNext]_vars

\* Submissions: createSubmission with any payload and createMultiSubmission,
\* made one after the other, on forms of any capability settings.
SubmitCall(p) ==
  \/ CallCreateSubmissionWith(p, FALSE, {NoId, ClientUuid}, {<<>>, ClientConfirmationId})
  \/ CallCreateMultiSubmission(p, FALSE)

SubmitStep(p) ==
  \/ CSReadVersion(p) \/ CSInsert(p) \/ CSReadForm(p) \/ CSGrants(p) \/ CSStatus(p)
  \/ CSNotify(p) \/ CSFiles(p) \/ CSCommit(p) \/ CSReread(p) \/ CSOnSubmit(p)
  \/ CMSReadVersion(p) \/ CMSReadForm(p) \/ CMSInsert(p) \/ CMSGrants(p) \/ CMSCommit(p)
  \/ RelayReject(p) \/ RelayHang(p)
  \/ Fail(p)

SubmitSeqNext == \E p \in Procs : SubmitCall(p) \/ SubmitStep(p)

SubmitSeqSpec == SubmitInit /\ [][SubmitSeqNext]_vars

\* createSubmission has been called, on a version of form 1 or of form 2
\* (public), with a payload whose data tree is of any shape, that has no id of
\* its own and that has a createdBy of its own or none.
FilesInit ==
  /\ forms = InitForms
  /\ InitRows
  /\ \E data \in DataTrees, dr \in BOOLEAN, v \in {4, 5}, by \in {"", "user2"} :
       proc = [p \in Procs |->
                 IF p = 1
                   THEN [Started("createSubmission", "cs_readVersion", NoId, v)
                           EXCEPT !.draft = dr, !.subData = data, !.dataBy = by]
                   ELSE IdleProc]

CreateSubmissionStep(p) ==
  \/ CSReadVersion(p) \/ CSReadForm(p) \/ CSInsert(p) \/ CSGrants(p) \/ CSStatus(p)
  \/ CSNotify(p) \/ CSFiles(p) \/ CSCommit(p) \/ CSReread(p) \/ CSOnSubmit(p)

FilesNext == \E p \in Procs : InTurn(p) /\ (CreateSubmissionStep(p) \/ Fail(p))

FilesSpec == FilesInit /\ [][FilesNext]_vars

\* The calls on form 1 that write: each of the operations that read the form
\* and then write rows of it.
WritersOfForm1 ==
  {[Started("publishVersion", "pv_readForm", 1, 3) EXCEPT !.publish = TRUE],
   Started("publishDraft", "pd_readForm", 1, 6),
   [Started("createDraft", "cd_readForm", 1, NoId) EXCEPT !.schema = 2],
   UpdateFormCall(1, DisabledSchedule, {"idir"}, FALSE,
                  [expire |-> FALSE, allowLateSubmissions |-> FALSE, openInFuture |-> TRUE]),
   [Started("createSubmission", "cs_readVersion", NoId, 4) EXCEPT !.draft = TRUE],
   [Started("createSubmission", "cs_readVersion", NoId, 4)
      EXCEPT !.subData = Object(<<<<"upload", Upload(<<1>>)>>>>)],
   [Started("createMultiSubmission", "cms_readVersion", NoId, 4)
      EXCEPT !.draft = TRUE, !.payload = <<PlainRecord>>]}

\* deleteForm(1) and one of the calls that write on form 1 have been made, and
\* overlap in any way: each runs from await to await.
DeleteRaceInit ==
  /\ forms = InitForms
  /\ InitRows
  /\ \E call \in WritersOfForm1 :
       proc = [p \in Procs |->
                 IF p = 1 THEN Started("deleteForm", "df_readForm", 1, NoId)
                 ELSE IF p = 2 THEN call
                 ELSE IdleProc]

DeleteRaceStep(p) ==
  \/ DFReadForm(p) \/ DFPatch(p) \/ DFReadKey(p) \/ DFDeleteKey(p) \/ DFCommit(p)
  \/ DFReread(p)
  \/ PVReadForm(p) \/ PVPatchAll(p) \/ PVPatchOne(p) \/ PVCommit(p) \/ PVReread(p)
  \/ PVOnPublish(p)
  \/ PDReadForm(p) \/ PDReadDraft(p) \/ PDPatchAll(p) \/ PDInsert(p) \/ PDDeleteDraft(p)
  \/ PDCommit(p) \/ PDReread(p) \/ PDOnPublish(p)
  \/ CDReadForm(p) \/ CDInsert(p) \/ CDCommit(p) \/ CDReread(p)
  \/ UpdateFormStep(p)
  \/ CreateSubmissionStep(p)
  \/ CMSReadVersion(p) \/ CMSReadForm(p) \/ CMSInsert(p) \/ CMSGrants(p) \/ CMSCommit(p)
  \/ Fail(p)

DeleteRaceNext == \E p \in Procs : DeleteRaceStep(p)

DeleteRaceSpec == DeleteRaceInit /\ [][DeleteRaceNext]_vars

\* createForm or updateForm has been called with any identity providers and
\* any allowSubmitterToUploadFile, and then, when it has ended,
\* createMultiSubmission on a version of form 1 or of form 2.
PublicFormInit ==
  /\ forms = InitForms
  /\ InitRows
  /\ \E codes \in {{}, {"idir"}, {"public"}, {"idir", "public"}}, allow \in BOOLEAN,
        f \in {NoId, 1, 2}, v \in {4, 5}, anon \in BOOLEAN :
       proc = [p \in Procs |->
                 IF p = 1
                   THEN IF f = NoId
                     THEN [CreateFormCall(DisabledSchedule, codes, 1, FALSE)
                             EXCEPT !.allowUpload = allow]
                     ELSE [UpdateFormCall(f, DisabledSchedule, codes, FALSE,
                                          [expire |-> FALSE, allowLateSubmissions |-> FALSE,
                                           openInFuture |-> TRUE])
                             EXCEPT !.allowUpload = allow]
                 ELSE IF p = 2
                   THEN [Started("createMultiSubmission", "cms_readVersion", NoId, v)
                           EXCEPT !.draft = TRUE, !.userPublic = anon,
                                  !.payload = <<PlainRecord>>]
                 ELSE IdleProc]

PublicFormNext ==
  \E p \in Procs :
    InTurn(p) /\ (\/ ScheduleStep(p) \/ UpdateFormStep(p)
                  \/ CMSReadVersion(p) \/ CMSReadForm(p) \/ CMSInsert(p) \/ CMSGrants(p)
                  \/ CMSCommit(p))

PublicFormSpec == PublicFormInit /\ [][PublicFormNext]_vars

\* generateIdps has been called with any identity mode (or none) and any idps,
\* and parseIdps is called with what it returns.
IdpsInit ==
  /\ forms = InitForms
  /\ InitRows
  /\ \E userType \in IdentityMode \cup {""}, idps \in IdpLists :
       proc = [p \in Procs |->
                 IF p = 1
                   THEN [Started("generateIdps", "gi_generate", NoId, NoId)
                           EXCEPT !.userType = userType, !.idpList = idps]
                   ELSE IdleProc]

IdpsNext == \E p \in Procs : GenerateIdps(p) \/ ParseIdps(p)

IdpsSpec == IdpsInit /\ [][IdpsNext]_vars

\* The same calls, every continuation that can run being run in the end (the
\* event loop runs a continuation whose promise has settled).
PublishLiveSpec == PublishSeqSpec /\ WF_vars(PublishSeqNext)

\* ------------------------------------------- the broker's authorization table
\* A subject is the sequence of its tokens: $JS.API.INFO is <<"$JS", "API", "INFO">>.
\* src: jetstream.conf, authorization: the publish and subscribe subjects each
\* set of permissions allows.
ADMIN == [publish |-> {<<">">>}, subscribe |-> {<<">">>}]

CHEFS ==
  [publish |->
     {<<"$JS", "API", "INFO">>,
      <<"$JS", "API", "STREAM", "CREATE", "CHEFS">>,
      <<"$JS", "API", "STREAM", "UPDATE", "CHEFS">>,
      <<"$JS", "API", "STREAM", "DELETE", "CHEFS">>,
      <<"$JS", "API", "STREAM", "INFO", "CHEFS">>,
      <<"$JS", "API", "STREAM", "PURGE", "CHEFS">>,
      <<"$JS", "API", "STREAM", "LIST">>,
      <<"$JS", "API", "STREAM", "NAMES">>,
      <<"$JS", "API", "STREAM", "MSG", "DELETE", "CHEFS">>,
      <<"$JS", "API", "STREAM", "MSG", "GET", "CHEFS">>,
      <<"$JS", "API", "STREAM", "SNAPSHOT", "CHEFS">>,
      <<"$JS", "API", "STREAM", "RESTORE", "CHEFS">>,
      <<"$JS", "API", "CONSUMER", "CREATE", "CHEFS">>,
      <<"$JS", "API", "CONSUMER", "CREATE", "CHEFS", ">">>,
      <<"$JS", "API", "CONSUMER", "DURABLE", "CREATE", "CHEFS", ">">>,
      <<"$JS", "API", "CONSUMER", "DELETE", "CHEFS", ">">>,
      <<"$JS", "API", "CONSUMER", "INFO", "CHEFS", ">">>,
      <<"$JS", "API", "CONSUMER", "LIST", "CHEFS">>,
      <<"$JS", "API", "CONSUMER", "NAMES", "CHEFS">>,
      <<"$JS", "API", "CONSUMER", "MSG", "NEXT", "CHEFS", ">">>,
      <<"$JS", "API", "CONSUMER", "MSG", "NEXT", "CHEFS", "NEW">>,
      <<"$JS", "ACK", "CHEFS", ">">>,
      <<"PUBLIC", "forms", ">">>,
      <<"PRIVATE", "forms", ">">>},
   subscribe |-> {<<"_INBOX", ">">>}]

CHEFS_CONSUMERWithoutFetch ==
  [publish |->
     {<<"$JS", "API", "INFO">>,
      <<"$JS", "API", "CONSUMER", "DURABLE", "CREATE", "CHEFS", ">">>,
      <<"$JS", "ACK", "CHEFS", ">">>},
   subscribe |-> {<<"_INBOX", ">">>}]

CHEFS_CONSUMER ==
  [publish |->
     {<<"SANDBOX", "*">>,
      <<"$JS", "API", "INFO">>,
      <<"$JS", "API", "CONSUMER", "CREATE", "CHEFS">>,
      <<"$JS", "API", "CONSUMER", "CREATE", "CHEFS", ">">>,
      <<"$JS", "API", "CONSUMER", "DURABLE", "CREATE", "CHEFS", ">">>,
      <<"$JS", "API", "CONSUMER", "DELETE", "CHEFS", ">">>,
      <<"$JS", "API", "CONSUMER", "INFO", "CHEFS", ">">>,
      <<"$JS", "API", "CONSUMER", "LIST", "CHEFS">>,
      <<"$JS", "API", "CONSUMER", "NAMES", "CHEFS">>,
      <<"$JS", "API", "CONSUMER", "MSG", "NEXT", "CHEFS", ">">>,
      <<"$JS", "API", "CONSUMER", "MSG", "NEXT", "CHEFS", "NEW">>,
      <<"$JS", "API", "STREAM", "MSG", "GET", "CHEFS">>,
      <<"$JS", "API", "STREAM", "INFO", "CHEFS">>,
      <<"$JS", "API", "STREAM", "LIST">>,
      <<"$JS", "API", "STREAM", "NAMES">>,
      <<"$JS", "ACK", "CHEFS">>,
      <<"$JS", "ACK", "CHEFS", ">">>},
   subscribe |->
     {<<"PUBLIC", "forms", ">">>,
      <<"PRIVATE", "forms", ">">>,
      <<"_INBOX", ">">>}]

\* src: jetstream.conf, users: the permissions of each user (admin, chefs and
\* the nkey of the consumers), by the name of the permissions.
Permissions ==
  [c \in {"ADMIN", "CHEFS", "CHEFS_CONSUMER"} |->
     IF c = "ADMIN" THEN ADMIN ELSE IF c = "CHEFS" THEN CHEFS ELSE CHEFS_CONSUMER]

Credentials == DOMAIN Permissions

\* How the broker matches a subject against an allowed subject: token by
\* token, `*` standing for one token and a final `>` for one or more; a
\* wildcard in the subject of a subscription is matched only by a wildcard
\* that covers it.
RECURSIVE Matches(_, _)
Matches(allowed, subject) ==
  IF allowed = <<>> THEN subject = <<>>
  ELSE IF subject = <<>> THEN FALSE
  ELSE IF Head(allowed) = ">" THEN Len(allowed) = 1
  ELSE /\ \/ Head(allowed) = Head(subject)
          \/ Head(allowed) = "*" /\ Head(subject) # ">"
       /\ Matches(Tail(allowed), Tail(subject))

\* The user with permissions cred may publish (kind = "publish") or subscribe
\* (kind = "subscribe") on the subject.
Allowed(cred, kind, subject) ==
  \E allowed \in Permissions[cred][kind] : Matches(allowed, subject)

\* The tenants whose clients connect as consumers; each has one form (formA,
\* formB) and one durable consumer on the log, named after it.
Tenants == {"A", "B"}

FormsOfTenant == [t \in Tenants |-> IF t = "A" THEN "formA" ELSE "formB"]

CursorOfTenant == [t \in Tenants |-> IF t = "A" THEN "cursorA" ELSE "cursorB"]

Logs == {"CHEFS", "OTHER"}

\* The subjects of the events of a form: PUBLIC.forms.<event>.<formId> and
\* PRIVATE.forms.<event>.<formId>.
FormEventSubjects(form) ==
  {<<v, "forms", e, form>> : v \in {"PUBLIC", "PRIVATE"}, e \in {"schema", "submission"}}

\* The subjects a client may name when it publishes or subscribes.
Subjects ==
  {<<"$JS", "API", "INFO">>, <<"$JS", "API", "STREAM", "LIST">>,
   <<"$JS", "API", "STREAM", "NAMES">>, <<"SANDBOX", "test">>, <<"PUBLIC", "other">>,
   <<"_INBOX", "r1">>, <<"_INBOX", "r1", "1">>, <<"_INBOX", ">">>, <<">">>,
   <<"PUBLIC", ">">>, <<"PRIVATE", ">">>, <<"PUBLIC", "forms", ">">>,
   <<"PRIVATE", "forms", ">">>, <<"PUBLIC", "forms", "*", "formA">>}
  \cup {<<"$JS", "API", "STREAM", o, l>> :
          o \in {"CREATE", "UPDATE", "DELETE", "INFO", "PURGE", "SNAPSHOT", "RESTORE"},
          l \in Logs}
  \cup {<<"$JS", "API", "STREAM", "MSG", o, l>> : o \in {"DELETE", "GET"}, l \in Logs}
  \cup {<<"$JS", "API", "CONSUMER", o, l>> : o \in {"CREATE", "LIST", "NAMES"}, l \in Logs}
  \cup {<<"$JS", "API", "CONSUMER", o, l, CursorOfTenant[t]>> :
          o \in {"CREATE", "DELETE", "INFO"}, l \in Logs, t \in Tenants}
  \cup {<<"$JS", "API", "CONSUMER", "DURABLE", "CREATE", l, CursorOfTenant[t]>> :
          l \in Logs, t \in Tenants}
  \cup {<<"$JS", "API", "CONSUMER", "MSG", "NEXT", l, CursorOfTenant[t]>> :
          l \in Logs, t \in Tenants}
  \cup {<<"$JS", "ACK", l>> : l \in Logs}
  \cup {<<"$JS", "ACK", l, CursorOfTenant[t], "1">> : l \in Logs, t \in Tenants}
  \cup UNION {FormEventSubjects(FormsOfTenant[t]) : t \in Tenants}

\* The subject has a wildcard token.
Wildcard(subject) == \E i \in 1..Len(subject) : subject[i] \in {"*", ">"}

\* A client of tenant t, connected with the permissions cred, publishes or
\* subscribes on a subject (a message is published on a subject with no
\* wildcard).
BrokerInit ==
  /\ forms = InitForms
  /\ InitRows
  /\ \E cred \in Credentials, t \in Tenants, kind \in {"publish", "subscribe"},
        subject \in Subjects :
       /\ kind = "publish" => ~Wildcard(subject)
       /\ proc = [p \in Procs |->
                 IF p = 1
                   THEN [Started(kind, "authorize", NoId, NoId)
                           EXCEPT !.cred = cred, !.tenant = t, !.subject = subject]
                   ELSE IdleProc]

\* The broker checks the publish or the subscription against the permissions
\* of the user: it goes through, or is refused with a permissions violation.
Authorize(p) ==
  /\ proc[p].pc = "authorize"
  /\ proc' = [proc EXCEPT ![p] =
       IF Allowed(proc[p].cred, proc[p].op, proc[p].subject)
         THEN Return(proc[p])
         ELSE Throw(proc[p], "PermissionsViolation")]
  /\ UNCHANGED <<store, events, failures, nextUuid>>

BrokerNext == \E p \in Procs : Authorize(p)

BrokerSpec == BrokerInit /\ [][BrokerNext]_vars

\* ------------------------------------------- durable consumers of the CHEFS log
\* The events published on the log are numbered from 1, in the order of their
\* publication.
MaxEvents == 2

\* How many times a consumer crashes.
MaxCrashes == 1

\* The state of the durable consumer (the read-cursor) the broker keeps for a
\* client, and of the client: `pending` the events delivered and not yet
\* acknowledged, `acked` those whose acknowledgement the broker has committed,
\* `inbox` the event the client holds (0: none; lost when the client crashes),
\* `handled` the events the client has ever processed, `dropped` the events the
\* client held or had processed, unacknowledged, when it crashed and has not
\* received since, `again` those it has received again after that, `crashes`
\* the number of its crashes.
EmptyCursor ==
  [pending |-> {}, acked |-> {}, inbox |-> 0, handled |-> {}, dropped |-> {},
   again |-> {}, crashes |-> 0]

\* The sequence numbers of the events on the log.
Log == {e.id : e \in {e \in events : e.svc = "jetstream"}}

\* The events the broker may deliver on the cursor of p: those on the log that
\* are neither acknowledged nor awaiting their acknowledgement.
Deliverable(p) == (Log \ proc[p].cursor.acked) \ proc[p].cursor.pending

\* The subject of a request of client p on its own durable cursor.
CursorSubject(p, request) ==
  IF request = "bind"
    THEN <<"$JS", "API", "CONSUMER", "DURABLE", "CREATE", "CHEFS", CursorOfTenant[proc[p].tenant]>>
  ELSE IF request = "next"
    THEN <<"$JS", "API", "CONSUMER", "MSG", "NEXT", "CHEFS", CursorOfTenant[proc[p].tenant]>>
  ELSE <<"$JS", "ACK", "CHEFS", CursorOfTenant[proc[p].tenant], "1">>

\* The producer publishes a submission.created event of a form on PRIVATE.forms
\* .submission.<form>; the broker, having authorized the publish, appends it to
\* the log.
ProducerPublish ==
  /\ Cardinality(Log) < MaxEvents
  /\ \E t \in Tenants :
       /\ Allowed("CHEFS", "publish", <<"PRIVATE", "forms", "submission", FormsOfTenant[t]>>)
       /\ events' = events \cup
            {Event("jetstream", "submission.created", 0, NoId, Cardinality(Log) + 1, FALSE)}
  /\ UNCHANGED <<store, proc, failures, nextUuid>>

\* The client connects, subscribes to its reply inbox and binds to its durable
\* cursor by name (creating it the first time); the cursor, kept by the
\* broker, is as the client left it.
ConsumerBind(p) ==
  /\ proc[p].pc = "cn_connect"
  /\ proc' = [proc EXCEPT ![p] =
       IF /\ Allowed(proc[p].cred, "subscribe", <<"_INBOX", "r1">>)
          /\ Allowed(proc[p].cred, "publish", CursorSubject(p, "bind"))
         THEN [proc[p] EXCEPT !.pc = "cn_fetch"]
         ELSE Throw(proc[p], "PermissionsViolation")]
  /\ UNCHANGED <<store, events, failures, nextUuid>>

\* The client asks for the next event and the broker delivers the first event
\* deliverable on the cursor, which then awaits its acknowledgement.
ConsumerFetch(p) ==
  /\ proc[p].pc = "cn_fetch"
  /\ \/ ~Allowed(proc[p].cred, "publish", CursorSubject(p, "next"))
     \/ Deliverable(p) # {}
  /\ proc' = [proc EXCEPT ![p] =
       IF ~Allowed(proc[p].cred, "publish", CursorSubject(p, "next"))
         THEN Throw(proc[p], "PermissionsViolation")
         ELSE LET s == CHOOSE d \in Deliverable(p) : \A e \in Deliverable(p) : d <= e
              IN [proc[p] EXCEPT !.pc = "cn_handle",
                    !.cursor.pending = @ \cup {s},
                    !.cursor.inbox = s,
                    !.cursor.again = IF s \in proc[p].cursor.dropped THEN @ \cup {s} ELSE @,
                    !.cursor.dropped = @ \ {s}]]
  /\ UNCHANGED <<store, events, failures, nextUuid>>

\* The client processes the event it holds.
ConsumerHandle(p) ==
  /\ proc[p].pc = "cn_handle"
  /\ proc' = [proc EXCEPT ![p].pc = "cn_ack",
                          ![p].cursor.handled = @ \cup {proc[p].cursor.inbox}]
  /\ UNCHANGED <<store, events, failures, nextUuid>>

\* The client acknowledges the event it holds and the broker commits the
\* acknowledgement: the event is not delivered on this cursor again.
ConsumerAck(p) ==
  /\ proc[p].pc = "cn_ack"
  /\ proc' = [proc EXCEPT ![p] =
       IF Allowed(proc[p].cred, "publish", CursorSubject(p, "ack"))
         THEN [proc[p] EXCEPT !.pc = "cn_fetch",
                 !.cursor.acked = @ \cup {proc[p].cursor.inbox},
                 !.cursor.pending = @ \ {proc[p].cursor.inbox},
                 !.cursor.inbox = 0]
         ELSE Throw(proc[p], "PermissionsViolation")]
  /\ UNCHANGED <<store, events, failures, nextUuid>>

\* The client crashes, before the acknowledgement of the event it holds (if it
\* holds one) is committed at the broker; what it held is lost with it, and it
\* is then to reconnect.  The cursor stays at the broker.
ConsumerCrash(p) ==
  /\ proc[p].pc \in {"cn_fetch", "cn_handle", "cn_ack"}
  /\ proc[p].cursor.crashes < MaxCrashes
  /\ proc' = [proc EXCEPT ![p].pc = "cn_connect",
                          ![p].cursor.crashes = @ + 1,
                          ![p].cursor.dropped =
                            IF proc[p].cursor.inbox # 0 THEN @ \cup {proc[p].cursor.inbox} ELSE @,
                          ![p].cursor.inbox = 0]
  /\ UNCHANGED <<store, events, failures, nextUuid>>

\* The broker has waited for the acknowledgement of a delivered event for as
\* long as the cursor allows: the event is deliverable again.
AckWaitExpires(p) ==
  /\ proc[p].op = "consume"
  /\ \E s \in proc[p].cursor.pending :
       proc' = [proc EXCEPT ![p].cursor.pending = @ \ {s}]
  /\ UNCHANGED <<store, events, failures, nextUuid>>

\* The consumer of each tenant is to connect, with the nkey of the consumers;
\* no event has been published yet.
ConsumerInit ==
  /\ forms = InitForms
  /\ InitRows
  /\ proc = [p \in Procs |->
               [Started("consume", "cn_connect", NoId, NoId)
                  EXCEPT !.cred = "CHEFS_CONSUMER", !.tenant = IF p = 1 THEN "A" ELSE "B",
                         !.cursor = EmptyCursor]]

ConsumerStep(p) ==
  ConsumerBind(p) \/ ConsumerFetch(p) \/ ConsumerHandle(p) \/ ConsumerAck(p)

ConsumerNext ==
  \/ ProducerPublish
  \/ \E p \in Procs : ConsumerStep(p) \/ ConsumerCrash(p) \/ AckWaitExpires(p)

ConsumerSpec == ConsumerInit /\ [][ConsumerNext]_vars

\* A client that can take a step eventually takes one (it reconnects after a
\* crash, fetches, processes and acknowledges), and the timer of the broker
\* eventually fires.
ConsumerLiveSpec ==
  /\ ConsumerSpec
  /\ \A p \in Procs : WF_vars(ConsumerStep(p)) /\ WF_vars(AckWaitExpires(p))

\* ------------------------------------------------------------------ properties
PublishedOf(vs, f) == {v \in vs : v.formId = f /\ v.published}

\* Call p has ended and no later call has begun: under SeqSpec the store is as
\* p left it, and p.snapV / p.snapD are the store as p found it.
Latest(p) == proc[p].pc = "done" /\ \A q \in Procs : q > p => proc[q].pc = "idle"

EventsBy(p) == {e \in events : e.by = p}

\* C1: after any sequence of publishVersion and publishDraft calls, with any
\* form and version ids, every form has at most one version with published = true.
C1_AtMostOnePublished ==
  \A f \in DOMAIN forms : Cardinality(PublishedOf(versions, f)) <= 1

\* Call p publishes on form f: publishDraft of a draft there is, or
\* publishVersion, without unpublish, of a version of f.
Publisher(p, f) ==
  /\ proc[p].formId = f
  /\ \/ /\ proc[p].op = "publishDraft"
        /\ \E d \in proc[p].snapD : d.id = proc[p].targetId
     \/ /\ proc[p].op = "publishVersion" /\ proc[p].publish
        /\ \E v \in proc[p].snapV : v.id = proc[p].targetId /\ v.formId = f

\* C2: of two publish operations on the same form, not of the same version,
\* whose transactions overlap, the loser fails (Conflict) instead of committing too, and at most one version of
\* the form ends up published - here even in runs where no database statement
\* is rejected.
C2_ConcurrentPublishersConflict ==
  (failures = 0) =>
    \A p \in Procs, q \in Procs, f \in DOMAIN forms :
      (/\ p # q /\ Publisher(p, f) /\ Publisher(q, f)
       /\ proc[p].op = "publishDraft" \/ proc[p].targetId # proc[q].targetId
       /\ q \in proc[p].overlapped
       /\ proc[p].pc = "done" /\ proc[q].pc = "done")
      => /\ ~(proc[p].committed /\ proc[q].committed)
         /\ Cardinality(PublishedOf(versions, f)) <= 1

\* C3: a successful publishVersion(F, V) of an existing version V, without
\* unpublish, leaves V published and every other version of F unpublished; with
\* unpublish, V being the published version of F, it leaves F with no published
\* version and changes the published flag of no version other than V.
C3_PublishVersionEffect ==
  \A p \in Procs :
    (/\ Latest(p) /\ proc[p].op = "publishVersion" /\ proc[p].outcome = "ok"
     /\ \E v \in proc[p].snapV : v.id = proc[p].targetId)
    => IF proc[p].publish
         THEN /\ \A v \in versions : v.id = proc[p].targetId => v.published
              /\ \A v \in versions :
                   (v.formId = proc[p].formId /\ v.id # proc[p].targetId) => ~v.published
         ELSE ({v.id : v \in PublishedOf(proc[p].snapV, proc[p].formId)} = {proc[p].targetId})
              => /\ PublishedOf(versions, proc[p].formId) = {}
                 /\ \A v \in versions : v.id # proc[p].targetId => v \in proc[p].snapV

\* C3 witness: a publishVersion that moved the published flag of a form from
\* one of its versions to another has returned.
C3_Witness ==
  \E p \in Procs :
    /\ Latest(p) /\ proc[p].op = "publishVersion" /\ proc[p].outcome = "ok" /\ proc[p].publish
    /\ \E v \in proc[p].snapV, w \in proc[p].snapV :
         /\ v.id = proc[p].targetId /\ v.formId = proc[p].formId /\ ~v.published
         /\ w.formId = proc[p].formId /\ w.published
         /\ [v EXCEPT !.published = TRUE] \in versions
         /\ [w EXCEPT !.published = FALSE] \in versions

\* C4: publishVersion(F, V) with V naming no FormVersion fails with NotFound,
\* leaves every published flag as it was and emits no form event - here in runs
\* where no database statement is rejected.
C4_MissingVersionNotFound ==
  (failures = 0) =>
    \A p \in Procs :
      (/\ Latest(p) /\ proc[p].op = "publishVersion"
       /\ ~\E v \in proc[p].snapV : v.id = proc[p].targetId)
      => /\ proc[p].outcome = "NotFound"
         /\ versions = proc[p].snapV
         /\ EventsBy(p) = {}

\* C5: publishDraft(F, D) is all-or-nothing, whatever step fails: either the new
\* version exists as the only published version of F and D is deleted, or no
\* version was created, no flag changed and D is as it was.
C5_PublishDraftAllOrNothing ==
  \A p \in Procs :
    (Latest(p) /\ proc[p].op = "publishDraft")
    => \/ /\ {v.id : v \in PublishedOf(versions, proc[p].formId)} = {proc[p].newId}
          /\ ~DraftFound(proc[p].targetId)
       \/ /\ versions = proc[p].snapV
          /\ drafts = proc[p].snapD

\* C6: a draft is consumed exactly once: no sequence or interleaving of
\* publishDraft calls creates more than one FormVersion from the same draft.
C6_DraftConsumedOnce ==
  \A d \in DraftArgs \ {NoId} :
    Cardinality({v \in versions : v.fromDraft = d}) <= 1

\* C7: no two versions of a form share a version number, also when publishDraft
\* calls on the form overlap.
C7_VersionNumbersUnique ==
  \A v \in versions, w \in versions :
    (v.formId = w.formId /\ v.version = w.version) => v.id = w.id

\* C8: no form has more than one FormVersionDraft row.
C8_AtMostOneDraft ==
  \A f \in DOMAIN forms : Cardinality({d \in drafts : d.formId = f}) <= 1

\* C9: no call to eventService or eventStreamService is made before the
\* transaction of the operation has committed.
C9_EventsAfterCommit ==
  \A e \in events : proc[e.by].committed

\* C10: every committed publish / unpublish and every committed submission
\* creation is followed by a call of eventStreamService.onPublish / onSubmit
\* carrying its ids and flag, by the time the operation ends - here even in runs
\* where no database statement is rejected.
C10_CommittedThenPublishAttempt ==
  (failures = 0) =>
    \A p \in Procs :
      (/\ proc[p].pc = "done" /\ proc[p].committed
       /\ proc[p].op \in {"publishVersion", "publishDraft", "createSubmission"})
      => \E e \in EventsBy(p) :
           /\ e.svc = "eventStreamService"
           /\ e.fn = (IF proc[p].op = "createSubmission" THEN "onSubmit" ELSE "onPublish")
           /\ e.formId = proc[p].formId
           /\ e.id = (IF proc[p].op = "publishVersion" THEN proc[p].targetId ELSE proc[p].newId)
           /\ e.flag = (IF proc[p].op = "createSubmission" THEN proc[p].draft
                        ELSE IF proc[p].op = "publishVersion" THEN proc[p].publish ELSE TRUE)
\* The operations that hand an event to eventStreamService.
RelayOps == {"publishVersion", "publishDraft", "createSubmission"}

\* C11: when the eventStreamService call of a committed publishVersion,
\* publishDraft or createSubmission rejects, the committed rows stay and the
\* operation still returns its result to its caller.
C11_RelayFailureIsolated ==
  \A p \in Procs :
    (/\ proc[p].pc = "done" /\ proc[p].op \in RelayOps
     /\ proc[p].committed /\ proc[p].relay = "rejected")
    => proc[p].outcome = "ok"

\* C12: a committed publishVersion, publishDraft or createSubmission returns to
\* its caller in the end, whether or not the eventStreamService call completes.
C12_ReturnsWithoutWaiting ==
  \A p \in Procs :
    (proc[p].committed /\ proc[p].op \in RelayOps) ~> (proc[p].pc = "done")
\* C13: every persisted FormSubmission has confirmationId equal to the first 8
\* characters of its own id, upper-cased, whatever the payload carries.
C13_ConfirmationIdFromId ==
  \A sub \in submissions :
    sub.confirmationId = [i \in 1..ConfirmationLen |-> toUpperCase(UuidText(sub.id)[i])]

\* The form a FormVersion id belongs to.
FormOfVersion(id) == forms[VersionRow(id).formId]

\* The permissions granted on submission id.
GrantedOn(id) == {g.permission : g \in {u \in subUsers : u.formSubmissionId = id}}

\* The grants the context calls for.
ExpectedGrants(public, anonymous, draft) ==
  IF public \/ anonymous THEN {}
  ELSE IF draft
    THEN {"submission_create", "submission_read", "submission_delete", "submission_update"}
    ELSE {"submission_create", "submission_read"}

MultiRuledOut(p) ==
  /\ proc[p].op = "createMultiSubmission"
  /\ VersionFound(proc[p].targetId)
  /\ FormFound(VersionRow(proc[p].targetId).formId)
  /\ \/ ~FormOfVersion(proc[p].targetId).enableSubmitterDraft
     \/ ~FormOfVersion(proc[p].targetId).allowSubmitterToUploadFile
     \/ FormOfVersion(proc[p].targetId).public
     \/ proc[p].userPublic

\* C15: createMultiSubmission on a form with enableSubmitterDraft false or
\* allowSubmitterToUploadFile false, or on a public form, or by an anonymous
\* caller, is refused (the 401 Problem the operation throws for a capability it
\* lacks) and has inserted no submission row and no grant row.
C15_MultiRefusedWithoutInserts ==
  \A p \in Procs :
    (Latest(p) /\ MultiRuledOut(p))
    => /\ proc[p].outcome \in {"Problem401", "error"}
       /\ (failures = 0) => proc[p].outcome = "Problem401"
       /\ ~proc[p].committed
       /\ proc[p].result = <<>>
       /\ submissions = proc[p].snapS
       /\ subUsers = proc[p].snapU

\* C15 witness: a createMultiSubmission of records by an authenticated caller,
\* on a form that is not public and allows drafts but not uploads, was refused.
C15_Witness ==
  \E p \in Procs :
    /\ Latest(p) /\ MultiRuledOut(p) /\ proc[p].outcome = "Problem401"
    /\ Len(proc[p].payload) > 0 /\ ~proc[p].userPublic
    /\ FormOfVersion(proc[p].targetId).enableSubmitterDraft
    /\ ~FormOfVersion(proc[p].targetId).public
    /\ ~FormOfVersion(proc[p].targetId).allowSubmitterToUploadFile

\* C16: createMultiSubmission is all-or-nothing: when it does not return, no
\* submission row and no grant row of the call persists; when it returns, its
\* result has one persisted row for each record of the payload, in the order of
\* the payload, and each row has its grant rows.
C16_MultiAllOrNothing ==
  \A p \in Procs :
    (Latest(p) /\ proc[p].op = "createMultiSubmission")
    => IF proc[p].outcome = "ok"
         THEN /\ Len(proc[p].result) = Len(proc[p].payload)
              /\ \A i \in 1..Len(proc[p].result) :
                   /\ proc[p].result[i] \in submissions
                   /\ proc[p].result[i] \notin proc[p].snapS
                   /\ proc[p].result[i].data.firstName = proc[p].payload[i].firstName
                   /\ GrantedOn(proc[p].result[i].id) =
                        ExpectedGrants(FALSE, FALSE, proc[p].draft)
                   /\ \A j \in 1..Len(proc[p].result) :
                        proc[p].result[i].id = proc[p].result[j].id => i = j
              /\ Cardinality(submissions) = Cardinality(proc[p].snapS) + Len(proc[p].payload)
         ELSE /\ submissions = proc[p].snapS
              /\ subUsers = proc[p].snapU

\* C16 witness: a createMultiSubmission of two different records failed after
\* its rows were inserted in its transaction.
C16_Witness ==
  \E p \in Procs :
    /\ Latest(p) /\ proc[p].op = "createMultiSubmission" /\ proc[p].outcome = "error"
    /\ Len(proc[p].result) = 2
    /\ proc[p].payload[1] # proc[p].payload[2]

\* createMultiSubmission has passed `service.popFormLevelInfo(submissionDataArray)`.
Sanitized(p) ==
  /\ proc[p].op = "createMultiSubmission"
  /\ proc[p].pc \in {"cms_insert", "cms_grants", "cms_commit"}

\* The operator / display fields of the claim.
DisplayFields ==
  {"confirmationId", "formName", "version", "createdAt", "fullName", "username", "email",
   "status", "assignee", "assigneeEmail"}

\* C17: after popFormLevelInfo no record has a field named
\* confirmationId, formName, version, createdAt, fullName, username, email,
\* status, assignee, assigneeEmail, submit or lateEntry, on the record or in its
\* `form` block, and the number of records is kept.
C17_DisplayFieldsRemoved ==
  \A p \in Procs :
    Sanitized(p)
    => /\ Len(proc[p].records) = Len(proc[p].payload)
       /\ \A i \in 1..Len(proc[p].records) :
            /\ DOMAIN proc[p].records[i] \cap (DisplayFields \cup {"submit", "lateEntry"}) = {}
            /\ "form" \in DOMAIN proc[p].records[i]
                 => DOMAIN proc[p].records[i].form \cap DisplayFields = {}

\* createForm call p has passed `service.validateScheduleObject(data.schedule)`.
Validated(p) == proc[p].op = "createForm" /\ proc[p].validation.status # "none"

\* C18: validateScheduleObject returns success for every schedule that is not
\* enabled; for an enabled schedule of type CLOSINGDATE it returns success
\* exactly when the open and close dates are valid, the late-submission
\* allowance, if enabled, has a term and an interval type, and the closing
\* message, if enabled, is not empty; for an enabled schedule of any type other
\* than MANUAL and CLOSINGDATE it returns error.
C18_ScheduleValidation ==
  \A p \in Procs :
    Validated(p)
    => LET sch == proc[p].schedule
           status == proc[p].validation.status
       IN /\ status \in {"success", "error"}
          /\ ~sch.enabled => status = "success"
          /\ (sch.enabled /\ sch.scheduleType = "closingdate")
               => (status = "success"
                     <=> /\ sch.openSubmissionDateTime = "valid"
                         /\ sch.closeSubmissionDateTime = "valid"
                         /\ sch.lateEnabled => (sch.lateTerm /\ sch.lateInterval)
                         /\ sch.closingMessageEnabled => sch.closingMessage)
          /\ (sch.enabled /\ sch.scheduleType \notin {"manual", "closingdate"})
               => status = "error"
          /\ (proc[p].outcome = "Validation") <=> (status = "error")

\* C18 witness: an enabled CLOSINGDATE schedule with both dates, a complete
\* late-submission allowance and a closing message was found valid, and the
\* form was created.
C18_Witness ==
  \E p \in Procs :
    /\ Validated(p) /\ proc[p].outcome = "ok"
    /\ proc[p].schedule = Schedule(TRUE, "valid", "closingdate", "valid", TRUE, TRUE,
                                   TRUE, TRUE, TRUE)
    /\ proc[p].validation.status = "success"

\* C19: validateScheduleObject returns success for every enabled schedule of
\* type MANUAL, whatever its open and close dates are and whether it has them.
C19_ManualRegardlessOfDates ==
  \A p \in Procs :
    (Validated(p) /\ proc[p].schedule.enabled /\ proc[p].schedule.scheduleType = "manual")
    => proc[p].validation.status = "success"

\* C20: validateScheduleObject of an enabled schedule of type 'closingdate' that
\* has no closeSubmissionDateTime returns status 'error' with message 'Invalid
\* closed submission date.'.
C20_NoCloseDateMessage ==
  \A p \in Procs :
    (/\ Validated(p) /\ proc[p].schedule.enabled
     /\ proc[p].schedule.scheduleType = "closingdate"
     /\ proc[p].schedule.closeSubmissionDateTime = "absent")
    => proc[p].validation = [message |-> "Invalid closed submission date.", status |-> "error"]
\* A step in which call p is rejected for its schedule.
RejectedNow(p) == proc[p].outcome # "Validation" /\ proc'[p].outcome = "Validation"

\* C21: schedule validation is the same check on create and on update.  For a
\* createForm and an updateForm (of an existing, active form) given the same
\* schedule, whatever their other inputs: the validator returns the same
\* verdict and message to both, one is rejected (422) exactly when the other
\* is, an updateForm that nothing fails does reach the check, and the step that
\* rejects a call leaves every table of the store as it was.
C21_SameVerdictOnCreateAndUpdate ==
  /\ [](\A p \in Procs, q \in Procs :
          /\ (/\ proc[p].op = "createForm" /\ proc[q].op = "updateForm"
              /\ proc[p].validation.status # "none" /\ proc[q].validation.status # "none"
              /\ proc[p].schedule = proc[q].schedule)
               => /\ proc[p].validation = proc[q].validation
                  /\ (proc[p].outcome = "Validation") <=> (proc[q].outcome = "Validation")
                  /\ (proc[p].outcome = "Validation") <=> (proc[p].validation.status = "error")
          /\ (proc[q].op = "updateForm" /\ proc[q].pc = "done" /\ failures = 0)
               => proc[q].validation.status # "none")
  /\ [][\A p \in Procs : RejectedNow(p) => store' = store]_vars

\* Both calls were given a malformed schedule and differing other inputs, and
\* both have been rejected.
C21_Witness ==
  /\ proc[1].op = "createForm" /\ proc[1].outcome = "Validation"
  /\ proc[2].op = "updateForm" /\ proc[2].outcome = "Validation"
  /\ proc[1].validation.message = "Invalid closed submission date."
  /\ proc[2].validation.message = "Invalid closed submission date."
  /\ proc[1].idps # proc[2].idps /\ proc[2].reminder
  /\ failures = 0
  /\ forms = InitForms

\* What the eligibility for reminders requires of the data of call r.
ReminderRequirements(r) ==
  /\ r.reminder
  /\ r.schedule.enabled
  /\ r.schedule.scheduleType \notin {"unset", "manual"}
  /\ r.schedule.scheduleType = "closingdate"
       => /\ ~r.clock.expire \/ r.clock.allowLateSubmissions
          /\ isDateValid(r.schedule.openSubmissionDateTime)
          /\ r.clock.openInFuture

\* C22: the reminder eligibility _validateReminderSettings computes is true only
\* if reminders were asked for, the schedule is enabled, its type is set and
\* is not MANUAL and, for a CLOSINGDATE schedule, the form is not expired (or
\* late submissions are allowed) and the open date is valid and in the
\* future; it is false whenever schedule.enabled is false; the function
\* returns (it never throws); and an updateForm that succeeds stores the value
\* the function computes, an updateForm that nothing fails being rejected
\* only when the schedule itself is malformed.
C22_ReminderEligibility ==
  \A p \in Procs :
    /\ (proc[p].op = "_validateReminderSettings" /\ proc[p].pc = "done")
         => /\ proc[p].outcome = "ok"
            /\ proc[p].eligible => ReminderRequirements(proc[p])
            /\ ~proc[p].schedule.enabled => ~proc[p].eligible
    /\ (proc[p].op = "updateForm" /\ proc[p].pc = "done" /\ proc[p].outcome = "ok")
         => /\ forms[proc[p].formId].reminder_enabled = proc[p].eligible
            /\ proc[p].eligible => ReminderRequirements(proc[p])
            /\ ~proc[p].schedule.enabled => ~forms[proc[p].formId].reminder_enabled
            /\ \A q \in Procs :
                 (/\ proc[q].op = "_validateReminderSettings" /\ proc[q].pc = "done"
                  /\ proc[q].schedule = proc[p].schedule)
                   => proc[q].eligible = proc[p].eligible
    /\ (proc[p].op = "updateForm" /\ proc[p].pc = "done" /\ failures = 0)
         => /\ proc[p].outcome \in {"ok", "Validation"}
            /\ proc[p].outcome = "Validation" => proc[p].validation.status = "error"

\* A CLOSINGDATE schedule not yet open, reminders asked for: updateForm has
\* stored reminder_enabled = true; the function alone returned the same.
C22_Witness ==
  /\ proc[1].op = "_validateReminderSettings" /\ proc[1].pc = "done" /\ proc[1].eligible
  /\ proc[2].op = "updateForm" /\ proc[2].outcome = "ok"
  /\ proc[2].schedule.scheduleType = "closingdate"
  /\ proc[2].reminder /\ proc[2].clock.openInFuture
  /\ forms[1].reminder_enabled

\* The rows of the tables owned by forms that belong to form f.
RowsOf(rows, f) == {r \in rows : r.formId = f}

\* C23: a createForm that succeeds has committed, all at once, exactly one new
\* Form row, active; one FormVersionDraft for it, holding the schema given; no
\* FormVersion; one FormStatusCode row for each defined status code; and one
\* FormRoleUser row for the creating user for each of the six role kinds.
\* Until its transaction commits no row of the new form is in the store.
C23_CreateFormRows ==
  \A p \in Procs :
    proc[p].op = "createForm" =>
      LET f == proc[p].formId
      IN /\ (Latest(p) /\ proc[p].outcome = "ok")
              => /\ DOMAIN forms = DOMAIN proc[p].snapF \cup {f}
                 /\ f \notin DOMAIN proc[p].snapF
                 /\ forms[f].active
                 /\ \A g \in DOMAIN proc[p].snapF : forms[g] = proc[p].snapF[g]
                 /\ drafts \ proc[p].snapD
                      = {[id |-> proc[p].newId, formId |-> f, schema |-> proc[p].schema]}
                 /\ RowsOf(drafts, f) = drafts \ proc[p].snapD
                 /\ versions = proc[p].snapV
                 /\ RowsOf(versions, f) = {}
                 /\ {r.code : r \in RowsOf(formStatusCodes, f)} = Statuses
                 /\ Cardinality(RowsOf(formStatusCodes, f)) = Cardinality(Statuses)
                 /\ RowsOf(formRoles, f)
                      = {[formId |-> f, userId |-> CurrentUser, role |-> r] :
                           r \in {"owner", "team_manager", "form_designer",
                                  "submission_reviewer", "form_submitter",
                                  "submission_approver"}}
                 /\ Cardinality(RowsOf(formRoles, f)) = 6
         /\ (InFlight(p) /\ ~proc[p].committed)
              => /\ f \notin DOMAIN forms
                 /\ RowsOf(drafts, f) = {} /\ RowsOf(formRoles, f) = {}
                 /\ RowsOf(formStatusCodes, f) = {} /\ RowsOf(formIdps, f) = {}

\* A public form has been created with schema 2.
C23_Witness ==
  \E p \in Procs :
    /\ Latest(p) /\ proc[p].op = "createForm" /\ proc[p].outcome = "ok"
    /\ proc[p].idps = {"public"} /\ proc[p].schema = 2
    /\ forms[proc[p].formId].public
    /\ Cardinality(RowsOf(formRoles, proc[p].formId)) = 6

\* C24: a createForm given a malformed schedule, or an identity provider code
\* that is unknown or inactive, fails (with a validation error when nothing
\* else fails) and persists nothing: the Form, FormIdentityProvider,
\* FormRoleUser, FormStatusCode and FormVersionDraft tables are as they were.
C24_CreateFormRejectedPersistsNothing ==
  \A p \in Procs :
    (/\ proc[p].op = "createForm" /\ proc[p].pc = "done"
     /\ \/ proc[p].schedule = NoCloseDateSchedule
        \/ proc[p].idps \cap {"bceid-basic", "github"} # {})
      => /\ proc[p].outcome # "ok"
         /\ failures = 0 => proc[p].outcome \in {"Validation", "InvalidIdp"}
         /\ ~proc[p].committed
         /\ Latest(p) => /\ forms = proc[p].snapF
                          /\ formRows = proc[p].snapR
                          /\ drafts = proc[p].snapD

\* A createForm naming an inactive identity provider has been rejected for it,
\* after the Form row was inserted in its transaction.
C24_Witness ==
  \E p \in Procs :
    /\ Latest(p) /\ proc[p].op = "createForm" /\ proc[p].outcome = "InvalidIdp"
    /\ "bceid-basic" \in proc[p].idps
    /\ proc[p].schedule = DisabledSchedule
    /\ failures = 0

\* The fields of a Form row other than its active flag.
SameButActive(row, old) == [row EXCEPT !.active = old.active] = old

\* C25: forms are soft-deleted only.  No call removes a Form row; a deleteForm
\* that succeeds has set active = false on its form and nothing else on it,
\* has left no API key of the form, and has left the other forms, the
\* versions, the drafts and the submissions as they were.  Of a form that
\* has been deleted, readForm with default parameters fails with NotFound and
\* readForm with active = false returns the form.  updateForm leaves the
\* active flag of every form as it was.
C25_SoftDeleteOnly ==
  \A p \in Procs :
    /\ proc[p].op \in {"deleteForm", "updateForm", "readForm"}
         => DOMAIN proc[p].snapF \subseteq DOMAIN forms
    /\ (Latest(p) /\ proc[p].op = "deleteForm" /\ proc[p].outcome = "ok")
         => /\ ~forms[proc[p].formId].active
            /\ proc[p].snapF[proc[p].formId].active
            /\ \A g \in DOMAIN forms :
                 /\ SameButActive(forms[g], proc[p].snapF[g])
                 /\ g # proc[p].formId => forms[g] = proc[p].snapF[g]
            /\ KeysOf(proc[p].formId) = {}
            /\ versions = proc[p].snapV /\ drafts = proc[p].snapD
            /\ submissions = proc[p].snapS
    /\ (/\ Latest(p) /\ proc[p].op = "readForm" /\ proc[p].outcome # "error"
        /\ proc[p].formId \in DOMAIN forms /\ ~forms[proc[p].formId].active)
         => proc[p].outcome = IF proc[p].active THEN "NotFound" ELSE "ok"
    /\ (Latest(p) /\ proc[p].op = "updateForm")
         => \A g \in DOMAIN proc[p].snapF : forms[g].active = proc[p].snapF[g].active

\* Form 1 has been deleted, and then read with active = false.
C25_Witness ==
  \E p \in Procs :
    /\ Latest(p) /\ proc[p].op = "readForm" /\ ~proc[p].active /\ proc[p].outcome = "ok"
    /\ proc[p].formId = 1 /\ ~forms[1].active
    /\ KeysOf(1) = {}
    /\ RowsOf(versions, 1) # {} /\ RowsOf(drafts, 1) # {}

\* C26: a deleteForm that fails before its transaction has committed (at any
\* step, the commit included) leaves the active flag of the form and the API
\* key of the form exactly as they were before the call.
C26_DeleteFormAllOrNothing ==
  \A p \in Procs :
    (/\ Latest(p) /\ proc[p].op = "deleteForm" /\ proc[p].outcome # "ok"
     /\ ~proc[p].committed /\ proc[p].formId \in DOMAIN forms)
      => /\ forms[proc[p].formId].active = proc[p].snapF[proc[p].formId].active
         /\ KeysOf(proc[p].formId) = {k \in proc[p].snapK : k.formId = proc[p].formId}

\* C27: whatever calls of createOrReplaceApiKey, filesApiKeyAccess,
\* deleteApiKey and deleteForm are made, one after the other or overlapping,
\* a form has at most one FormApiKey row; and a createOrReplaceApiKey made
\* alone on a form that has a key leaves that same row, with a new secret.
C27_AtMostOneApiKey ==
  /\ \A f \in DOMAIN forms : Cardinality(KeysOf(f)) <= 1
  /\ \A p \in Procs :
       (/\ proc[p].op = "createOrReplaceApiKey" /\ proc[p].outcome = "ok"
        /\ proc[p].local # NoId /\ \A q \in Procs \ {p} : proc[q].pc = "idle")
         => /\ {k.id : k \in KeysOf(proc[p].formId)} = {proc[p].local}
            /\ \A k \in KeysOf(proc[p].formId) :
                 /\ k.secret = proc[p].newId
                 /\ \A old \in proc[p].snapK : old.secret # k.secret

\* Call p is a publish / a subscription made with the permissions cred, and
\* the broker has let it through / has refused it.
Let(p, cred, kind) ==
  proc[p].cred = cred /\ proc[p].op = kind /\ proc[p].outcome = "ok"

Asked(p, cred, kind) ==
  proc[p].cred = cred /\ proc[p].op = kind /\ proc[p].pc = "done"

Under(prefix, subject) ==
  Len(subject) > Len(prefix) /\ SubSeq(subject, 1, Len(prefix)) = prefix

\* The subject is a form-event subject, or a wildcard that covers some.
FormEventSubject(subject) ==
  \/ Under(<<"PUBLIC", "forms">>, subject) \/ Under(<<"PRIVATE", "forms">>, subject)
  \/ subject \in {<<">">>, <<"PUBLIC", ">">>, <<"PRIVATE", ">">>}

\* Requests that create, update, delete, purge or restore the CHEFS log, or
\* delete a message of it.
LogTampering ==
  {<<"$JS", "API", "STREAM", o, "CHEFS">> :
     o \in {"CREATE", "UPDATE", "DELETE", "PURGE", "RESTORE"}}
  \cup {<<"$JS", "API", "STREAM", "MSG", "DELETE", "CHEFS">>}

\* Requests that create or read a durable read-cursor, fetch messages, read
\* log info, or acknowledge.
ConsumerRequest(subject) ==
  \/ Under(<<"$JS", "API", "CONSUMER", "CREATE">>, subject)
  \/ Under(<<"$JS", "API", "CONSUMER", "DURABLE", "CREATE">>, subject)
  \/ Under(<<"$JS", "API", "CONSUMER", "INFO">>, subject)
  \/ Under(<<"$JS", "API", "CONSUMER", "LIST">>, subject)
  \/ Under(<<"$JS", "API", "CONSUMER", "NAMES">>, subject)
  \/ Under(<<"$JS", "API", "CONSUMER", "MSG", "NEXT">>, subject)
  \/ Under(<<"$JS", "API", "STREAM", "MSG", "GET">>, subject)
  \/ Under(<<"$JS", "API", "STREAM", "INFO">>, subject)
  \/ subject \in {<<"$JS", "API", "INFO">>, <<"$JS", "API", "STREAM", "LIST">>,
                  <<"$JS", "API", "STREAM", "NAMES">>}
  \/ Under(<<"$JS", "ACK">>, subject)

\* C28: with the permissions of the consumers (CHEFS_CONSUMER) a client is
\* refused every request that creates, updates, deletes, purges or restores
\* the CHEFS log or deletes a message of it, and every publish on a form-event
\* subject; what it is let publish is only a request that creates or reads a
\* durable read-cursor, fetches messages, reads log info or acknowledges.
C28_ConsumerCannotTamper ==
  \A p \in Procs :
    /\ (Asked(p, "CHEFS_CONSUMER", "publish") /\ proc[p].subject \in LogTampering)
         => proc[p].outcome = "PermissionsViolation"
    /\ (Asked(p, "CHEFS_CONSUMER", "publish") /\ FormEventSubject(proc[p].subject))
         => proc[p].outcome = "PermissionsViolation"
    /\ Let(p, "CHEFS_CONSUMER", "publish") => ConsumerRequest(proc[p].subject)

\* Requests on the CHEFS log and its consumers, and those that name no log.
Management(subject) ==
  /\ Head(subject) = "$JS"
  /\ \A i \in 1..Len(subject) : subject[i] # "OTHER"

\* C29: with the permissions of the producer (CHEFS) a client is let publish
\* only management requests of the CHEFS log and its consumers and on
\* subjects under PUBLIC.forms. and PRIVATE.forms., and is let subscribe only
\* under _INBOX.; it is refused a subscription to any form-event subject; and
\* no client with other permissions than the administrator's is let
\* subscribe under _INBOX., the reply inbox of the producer.
C29_ProducerScopeAndPrivateInbox ==
  \A p \in Procs :
    /\ Let(p, "CHEFS", "publish")
         => \/ Management(proc[p].subject)
            \/ Under(<<"PUBLIC", "forms">>, proc[p].subject)
            \/ Under(<<"PRIVATE", "forms">>, proc[p].subject)
    /\ Let(p, "CHEFS", "subscribe") => Under(<<"_INBOX">>, proc[p].subject)
    /\ (Asked(p, "CHEFS", "subscribe") /\ FormEventSubject(proc[p].subject))
         => proc[p].outcome = "PermissionsViolation"
    /\ (Asked(p, "CHEFS_CONSUMER", "subscribe") /\ Under(<<"_INBOX">>, proc[p].subject))
         => proc[p].outcome = "PermissionsViolation"

\* The tenants other than t whose subjects a subscription or a publish on
\* `subject` reaches: those of the form the subject names, or every tenant
\* when it ends in a wildcard.
Reaches(subject, t) ==
  /\ FormEventSubject(subject)
  /\ \E u \in Tenants \ {t} :
       \E own \in FormEventSubjects(FormsOfTenant[u]) : Matches(subject, own)

\* C30: a client of one tenant, connected with permissions other than the
\* administrator's, is refused a subscription and a publish that reach the
\* form-event subjects of another tenant, and the request that deletes the
\* durable read-cursor of another tenant.
C30_TenantsPartitioned ==
  \A p \in Procs :
    (proc[p].pc = "done" /\ proc[p].cred = "CHEFS_CONSUMER")
      => /\ Reaches(proc[p].subject, proc[p].tenant)
              => proc[p].outcome = "PermissionsViolation"
         /\ (/\ proc[p].op = "publish"
             /\ \E u \in Tenants \ {proc[p].tenant} :
                  proc[p].subject
                    = <<"$JS", "API", "CONSUMER", "DELETE", "CHEFS", CursorOfTenant[u]>>)
              => proc[p].outcome = "PermissionsViolation"

\* Every value of a data tree: the tree and the values in it, at any depth.
RECURSIVE Values(_)
Values(node) ==
  {node} \cup UNION {Values(node.kids[i][2]) : i \in 1..Len(node.kids)}

\* The values of a data tree that are outside every file reference: the tree
\* and the values in it that are not in the `data` object of a reference.
RECURSIVE Outside(_)
Outside(node) ==
  {node} \cup UNION {Outside(node.kids[i][2]) :
                       i \in {j \in 1..Len(node.kids) :
                                ~(/\ node.kind = "object" /\ node.kids[j][1] = "data"
                                  /\ Truthy(Get(node.kids[j][2], "id")))}}

\* The ids of the file references {data: {id}} held by the objects of nodes.
ReferencesOf(nodes) ==
  {Get(Get(n, "data"), "id").val :
     n \in {m \in nodes : m.kind = "object" /\ Truthy(Get(Get(m, "data"), "id"))}}

\* createSubmission p has ended: when it committed, the files of refs are the
\* files of its submission; when it rolled back, no file link has changed.
FilesLinked(p, refs) ==
  IF proc[p].committed
    THEN \A f \in refs \cap DOMAIN files : files[f] = SubmissionId(proc[p])
    ELSE files = proc[p].snapL

\* C32 (as claimed): createSubmission links to the new submission, in the
\* transaction of the submission, the file of every {data: {id}} reference found
\* at any depth of the data tree, through objects and arrays; when the
\* transaction rolls back no file link is changed.
C32_FilesLinkedAtAnyDepth ==
  \A p \in Procs :
    (Latest(p) /\ proc[p].op = "createSubmission")
    => FilesLinked(p, ReferencesOf(Values(proc[p].subData)))

\* C32 (amended): createSubmission links to the new submission, in the
\* transaction of the submission, the file of every {data: {id}} reference of
\* the data tree that is not inside the `data` object of another reference, at
\* any depth through objects and arrays, and no other file; when the
\* transaction rolls back no file link is changed.
C32_FilesLinkedOutsideReferences ==
  \A p \in Procs :
    (Latest(p) /\ proc[p].op = "createSubmission")
    => /\ FilesLinked(p, ReferencesOf(Outside(proc[p].subData)))
       /\ \A f \in DOMAIN files \ ReferencesOf(Outside(proc[p].subData)) :
            files[f] = proc[p].snapL[f]

\* C32 witness: a createSubmission whose data holds two references three levels
\* down has committed, and both files are those of its submission.
C32_Witness ==
  \E p \in Procs :
    /\ Latest(p) /\ proc[p].op = "createSubmission" /\ proc[p].committed
    /\ Get(proc[p].subData, "panel").kind = "object"
    /\ ReferencesOf(Outside(proc[p].subData)) = {1, 2}
    /\ \A f \in {1, 2} : files[f] = SubmissionId(proc[p])

\* The identity modes of the claim: team without idps, public without idps,
\* login with the idps c1..cn, n >= 1.
OfAMode(p) ==
  \/ proc[p].userType \in {"team", "public"} /\ proc[p].idpList = <<>>
  \/ proc[p].userType = "login" /\ proc[p].idpList # <<>>

\* C33: generateIdps and parseIdps are inverse of each other on the three
\* identity modes: team (or no userType) gives the empty list and the empty list
\* gives team, public gives [{code: public}] which gives public, login with
\* c1..cn gives [{code: c1}, ..., {code: cn}] in that order which gives login
\* with c1..cn; so parseIdps(generateIdps(x)) has the userType and idps of x.
C33_IdpsRoundTrip ==
  \A p \in Procs :
    (proc[p].op = "generateIdps" /\ proc[p].pc = "done")
    => /\ proc[p].userType \in {"team", ""}
            => /\ proc[p].identityProviders = <<>>
               /\ proc[p].parsed = [idps |-> <<>>, userType |-> "team"]
       /\ proc[p].userType = "public"
            => /\ proc[p].identityProviders = <<[code |-> "public"]>>
               /\ proc[p].parsed = [idps |-> <<>>, userType |-> "public"]
       /\ proc[p].userType = "login"
            => /\ Len(proc[p].identityProviders) = Len(proc[p].idpList)
               /\ \A i \in 1..Len(proc[p].idpList) :
                    proc[p].identityProviders[i] = [code |-> proc[p].idpList[i]]
       /\ OfAMode(p)
            => proc[p].parsed = [idps |-> proc[p].idpList, userType |-> proc[p].userType]

\* C33 witness: login with two different idps has gone through generateIdps
\* and parseIdps.
C33_Witness ==
  \E p \in Procs :
    /\ proc[p].op = "generateIdps" /\ proc[p].pc = "done"
    /\ proc[p].userType = "login"
    /\ proc[p].idpList = <<"idir", "bceid-basic">>
    /\ proc[p].parsed.userType = "login"

\* C34: the stored reminder_enabled is derived, never taken from the client:
\* every Form row written by createForm or updateForm has reminder_enabled =
\* true only if its schedule.enabled is true and its scheduleType is not MANUAL.
C34_ReminderEnabledDerived ==
  \A f \in DOMAIN forms :
    forms[f].reminder_enabled
    => forms[f].schedule.enabled /\ forms[f].schedule.scheduleType # "manual"

\* The FormSubmissionStatus rows of submission id.
StatusesOf(id) == {st \in subStatuses : st.submissionId = id}

\* C35: every persisted submission with draft = false, made by createSubmission
\* or by createMultiSubmission, has exactly one FormSubmissionStatus row, of code
\* SUBMITTED, committed with it; every persisted submission with draft = true
\* has no status row.
C35_SubmittedStatusRow ==
  \A sub \in submissions :
    IF sub.draft
      THEN StatusesOf(sub.id) = {}
      ELSE StatusesOf(sub.id) = {[submissionId |-> sub.id, code |-> "SUBMITTED"]}

\* C36: the submission a createSubmission persists has createdBy 'public' when
\* the form has the 'public' identity provider and the usernameIdp of the
\* current user when it has not, whatever fields the payload carries.
C36_CreatedByFromForm ==
  \A p \in Procs :
    (Latest(p) /\ proc[p].op = "createSubmission" /\ proc[p].committed)
    => \A sub \in submissions :
         sub.id = SubmissionId(proc[p])
         => sub.createdBy = IF FormOfVersion(proc[p].targetId).public
                              THEN "public" ELSE CurrentUser

\* C37: forms are independent: publishVersion(F, V) and publishDraft(F, D)
\* change only rows of form F: the versions and drafts of every other form are
\* as they were (also when V or D belongs to another form), and a version
\* created in F holds the schema of a draft of F.
C37_PublishTouchesOnlyItsForm ==
  \A p \in Procs :
    (Latest(p) /\ proc[p].op \in {"publishVersion", "publishDraft"})
    => /\ {v \in versions : v.formId # proc[p].formId}
            = {v \in proc[p].snapV : v.formId # proc[p].formId}
       /\ {d \in drafts : d.formId # proc[p].formId}
            = {d \in proc[p].snapD : d.formId # proc[p].formId}
       /\ \A v \in versions \ proc[p].snapV :
            v.id \notin {w.id : w \in proc[p].snapV}
            => \E d \in proc[p].snapD : d.id = v.fromDraft /\ d.formId = v.formId

\* The operations of the claim: those that read form F and then write.
WritersOnForm ==
  {"updateForm", "publishVersion", "publishDraft", "createDraft", "createSubmission",
   "createMultiSubmission"}

\* deleteForm(F) has committed.
Deleted(f) == f \in DOMAIN forms /\ ~forms[f].active

\* C38: once deleteForm(F) has committed, no step of an updateForm,
\* publishVersion, publishDraft, createDraft, createSubmission or
\* createMultiSubmission on F changes the state store, and none that had not
\* committed before returns a result: also for a call that read the form before
\* the delete committed.
C38_NoWriteAfterDelete ==
  [][\A p \in Procs :
       (/\ proc[p].op \in WritersOnForm
        /\ Deleted(proc[p].formId)
        /\ proc'[p] # proc[p])
       => /\ store' = store
          /\ ~proc[p].committed => proc'[p].outcome # "ok"]_vars

\* Form f has the 'public' identity provider.
HasPublicIdp(f) == \E i \in formIdps : i.formId = f /\ i.code = "public"

\* C39: a form that has the 'public' identity provider never allows submitter
\* file upload: every Form row, as createForm and updateForm write it, has
\* allowSubmitterToUploadFile = false when the form has the 'public' identity
\* provider; and createMultiSubmission on a version of such a form throws (the
\* 401 Problem, or the error of a failed read) and inserts no submission.
C39_PublicFormsNeverAllowUpload ==
  /\ \A f \in DOMAIN forms : HasPublicIdp(f) => ~forms[f].allowSubmitterToUploadFile
  /\ \A p \in Procs :
       (Latest(p) /\ proc[p].op = "createMultiSubmission" /\ HasPublicIdp(proc[p].formId))
       => /\ proc[p].outcome \in {"Problem401", "error"}
          /\ (failures = 0) => proc[p].outcome = "Problem401"
          /\ submissions = {}

\* C39 witness: an updateForm that asked for submitter file upload on a form it
\* made public has committed, and createMultiSubmission on a version of that
\* form has ended.
C39_Witness ==
  \E p \in Procs, q \in Procs :
    /\ proc[p].op = "updateForm" /\ proc[p].outcome = "ok"
    /\ proc[p].allowUpload /\ "public" \in proc[p].idps /\ proc[p].formId = 1
    /\ ~forms[1].allowSubmitterToUploadFile
    /\ Latest(q) /\ proc[q].op = "createMultiSubmission" /\ proc[q].formId = 1

====
